---- MODULE Spec2Model ----
(***************************************************************************)
(* Model of the flywheel ECS core (src/src/ecs): Archetype, EntityData,    *)
(* EntityManager, ComponentPool, ComponentManager, Manager, System, World. *)
(*                                                                         *)
(* Conventions.  A Rust Vec<T> is a TLA+ sequence; element i of the Vec is *)
(* element i+1 of the sequence.  Option<T> is a sequence of length 0       *)
(* (None) or 1 (Some).  An Entity is its id.  A usize segment of an        *)
(* Archetype is the set of its set bit offsets.  A Rust panic (index out   *)
(* of bounds, unwrap of None/Err, usize underflow followed by an out of    *)
(* bounds index) sets fault to "panic"; a loop that cannot end sets it to  *)
(* "hang".  After a fault the program takes no further step.               *)
(***************************************************************************)
EXTENDS Integers, Sequences, FiniteSets, TLC

\* ------------------------------------------------------------------ bounds
\* ids 0 .. MaxEntities-1 can be issued by spawn
MaxEntities == 3
\* component types 0 .. MaxTypes-1 (the TypeId of T)
MaxTypes == 2
\* component values 1 .. MaxValue
MaxValue == 2
\* owner ids 0 .. MaxOwner handed to a stand-alone ComponentPool / System
MaxOwner == 2
\* ids 0 .. MaxSpawn-1 can be issued by Manager::spawn_entity
MaxSpawn == 2
\* component values 1 .. MaxComponent handed to Manager::add_component
MaxComponent == 1
\* component types 0 .. MaxWorldTypes-1 used by the systems and callbacks
MaxWorldTypes == 1
\* entries the change queue may hold while a drain is under way
MaxQueue == 2
\* owner ids 0 .. MaxPoolOwner handed to a stand-alone ComponentManager
MaxPoolOwner == 1
\* bit offsets 0 .. MaxBit of the first two segments are handed to an
\* Archetype used on its own
MaxBit == 1
\* threads 1 .. MaxThreads call Context::new and drop what it returned
MaxThreads == 3

\* --------------------------------------------------------------- constants
BITS == 64

EntityIds == 0 .. MaxEntities
Types == 0 .. (MaxTypes - 1)
Values == 1 .. MaxValue
OwnerIds == 0 .. MaxOwner
SpawnIds == 0 .. (MaxSpawn - 1)
Components == 1 .. MaxComponent
WorldTypes == 0 .. (MaxWorldTypes - 1)
PoolOwnerIds == 0 .. MaxPoolOwner
BitIds == (0 .. MaxBit) \cup { BITS + o : o \in 0 .. MaxBit }
ThreadIds == 1 .. MaxThreads

\* ------------------------------------------------------------ Option / Vec
None == << >>
Some(x) == << x >>
IsSome(o) == o /= << >>
IsNone(o) == o = << >>
Unwrap(o) == o[1]

Min(a, b) == IF a <= b THEN a ELSE b
DivCeil(a, b) == (a + b - 1) \div b

\* Vec::get(i)
VecGet(v, i) == IF i < Len(v) THEN Some(v[i + 1]) ELSE None
\* v[i] = x
VecSet(v, i, x) == [v EXCEPT ![i + 1] = x]
\* Vec::resize(n, fill)
VecResize(v, n, fill) ==
  IF n <= Len(v) THEN SubSeq(v, 1, n)
  ELSE v \o [k \in 1 .. (n - Len(v)) |-> fill]
\* Vec::pop on a non-empty Vec
VecPop(v) == SubSeq(v, 1, Len(v) - 1)
\* Vec::swap(i, j), both in bounds
VecSwap(v, i, j) == [v EXCEPT ![i + 1] = v[j + 1], ![j + 1] = v[i + 1]]
\* Vec::swap_remove(i), i in bounds: the last element takes the place of i
VecSwapRemove(v, i) == VecPop(VecSwap(v, i, Len(v) - 1))
\* the elements of a Vec
Elems(v) == { v[k] : k \in DOMAIN v }

\* ---------------------------------------------------------------- Archetype
Archetype_new == [count |-> 0, bytes |-> << >>]

\* an add that grows the segments and leaves count as it was
ArchetypeAddKeepingCount(a, id) ==
  LET g == IF a.count <= id
           THEN [a EXCEPT !.bytes = VecResize(a.bytes, DivCeil(id + 1, BITS), {})]
           ELSE a
  IN [g EXCEPT !.bytes[(id \div BITS) + 1] = @ \cup {id % BITS}]

Archetype_add(a, id) ==
  LET g == IF a.count <= id
           THEN [count |-> id + 1,
                 bytes |-> VecResize(a.bytes, DivCeil(id + 1, BITS), {})]
           ELSE a
  IN [g EXCEPT !.bytes[(id \div BITS) + 1] = @ \cup {id % BITS}]

Archetype_has(a, id) ==
  id < a.count /\ (id % BITS) \in a.bytes[(id \div BITS) + 1]

Archetype_has_common_with(a, other) ==
  \E k \in 1 .. Min(Len(a.bytes), Len(other.bytes)) :
     a.bytes[k] \cap other.bytes[k] /= {}

Archetype_is_subset_of(a, other) ==
  /\ a.count <= other.count
  /\ \A k \in 1 .. Min(Len(a.bytes), Len(other.bytes)) :
        a.bytes[k] \cap other.bytes[k] = a.bytes[k]

Archetype_is_superset_of(a, other) ==
  /\ other.count <= a.count
  /\ \A k \in 1 .. Min(Len(other.bytes), Len(a.bytes)) :
        other.bytes[k] \cap a.bytes[k] = other.bytes[k]

Archetype_remove(a, id) ==
  IF id < a.count
  THEN [a EXCEPT !.bytes[(id \div BITS) + 1] = @ \ {id % BITS}]
  ELSE a

Archetype_reset(a) == [a EXCEPT !.bytes = [k \in DOMAIN a.bytes |-> {}]]

\* the derived equality: count and segments alike
ArchetypeEqDerived(a, other) == a = other

\* PartialEq: the common segments agree and the segments beyond are zero
Archetype_eq(a, other) ==
  LET len == Min(Len(a.bytes), Len(other.bytes))
  IN /\ SubSeq(a.bytes, 1, len) = SubSeq(other.bytes, 1, len)
     /\ \A k \in (len + 1) .. Len(a.bytes) : a.bytes[k] = {}
     /\ \A k \in (len + 1) .. Len(other.bytes) : other.bytes[k] = {}

\* the ids the archetype holds
ArchetypeIds(a) == { id \in 0 .. (a.count - 1) : Archetype_has(a, id) }

\* --------------------------------------------------------------- EntityData
EntityData_new(owner) ==
  [owner |-> owner, archetype |-> Archetype_new, parent |-> None,
   sparse |-> << >>, dense |-> << >>]

EntityData_has_child(d, child) ==
  child < Len(d.sparse) /\ IsSome(d.sparse[child + 1])

\* Result<(), ()>: ok is FALSE for Err, and then the record is untouched
EntityData_set_parent(d, value) ==
  IF IsSome(value)
     /\ (Unwrap(value) = d.owner \/ EntityData_has_child(d, Unwrap(value)))
  THEN [ok |-> FALSE, data |-> d]
  ELSE [ok |-> TRUE, data |-> [d EXCEPT !.parent = value]]

\* an insert_child that puts the new child at the head of the child list
EntityDataInsertChildInFront(d, child) ==
  IF child = d.owner THEN [ok |-> FALSE, data |-> d]
  ELSE IF IsSome(d.parent) /\ child = Unwrap(d.parent)
  THEN [ok |-> FALSE, data |-> d]
  ELSE LET sp == IF Len(d.sparse) <= child
                 THEN VecResize(d.sparse, child + 1, None) ELSE d.sparse
       IN IF IsNone(sp[child + 1])
          THEN [ok |-> TRUE,
                data |-> [d EXCEPT !.sparse = VecSet(sp, child, Some(Len(d.dense))),
                                   !.dense = << child >> \o d.dense]]
          ELSE [ok |-> TRUE, data |-> [d EXCEPT !.sparse = sp]]

EntityData_insert_child(d, child) ==
  IF child = d.owner THEN [ok |-> FALSE, data |-> d]
  ELSE IF IsSome(d.parent) /\ child = Unwrap(d.parent)
  THEN [ok |-> FALSE, data |-> d]
  ELSE LET sp == IF Len(d.sparse) <= child
                 THEN VecResize(d.sparse, child + 1, None) ELSE d.sparse
       IN IF IsNone(sp[child + 1])
          THEN [ok |-> TRUE,
                data |-> [d EXCEPT !.sparse = VecSet(sp, child, Some(Len(d.dense))),
                                   !.dense = Append(d.dense, child)]]
          ELSE [ok |-> TRUE, data |-> [d EXCEPT !.sparse = sp]]

\* swap-removal of a child; fault when an index leaves the Vec
EntityData_remove_child(d, child) ==
  IF ~EntityData_has_child(d, child) THEN [fault |-> "none", data |-> d]
  ELSE LET index == Unwrap(d.sparse[child + 1])
           last_index == Len(d.dense) - 1
       IN IF Len(d.dense) = 0 \/ index > last_index
          THEN [fault |-> "panic", data |-> d]
          ELSE LET dn == IF index /= last_index
                         THEN VecSwap(d.dense, index, last_index) ELSE d.dense
                   moved == dn[index + 1]
               IN IF index /= last_index /\ moved >= Len(d.sparse)
                  THEN [fault |-> "panic", data |-> d]
                  ELSE LET sp == IF index /= last_index
                                 THEN VecSet(d.sparse, moved, Some(index))
                                 ELSE d.sparse
                       IN [fault |-> "none",
                           data |-> [d EXCEPT !.dense = VecPop(dn),
                                              !.sparse = VecSet(sp, child, None)]]

\* a clear that leaves the archetype as it was
EntityDataClearKeepsArchetype(d) ==
  [d EXCEPT !.parent = None, !.sparse = << >>, !.dense = << >>]

EntityData_clear(d) ==
  [d EXCEPT !.parent = None, !.archetype = Archetype_reset(d.archetype),
            !.sparse = << >>, !.dense = << >>]

\* ------------------------------------------------------------ EntityManager
\* the state of an EntityManager is [sparse, destroyed]; an operation yields
\* [sparse, destroyed, fault]
EntityManager_new == [sparse |-> << >>, destroyed |-> << >>]

\* self.sparse.get(id).is_some_and(Option::is_some)
SlotAlive(sp, id) == id < Len(sp) /\ IsSome(sp[id + 1])
\* self.sparse[id].as_ref().unwrap()
SlotData(sp, id) == Unwrap(sp[id + 1])
SlotPut(sp, id, d) == VecSet(sp, id, Some(d))

\* a spawn that hands out a recycled id and leaves its record on the free
\* list
EntityManagerSpawnKeepingFreeList(em) ==
  IF Len(em.destroyed) > 0
  THEN LET entity_data == em.destroyed[Len(em.destroyed)]
           entity == entity_data.owner
       IN [sparse |-> VecSet(em.sparse, entity, Some(entity_data)),
           destroyed |-> em.destroyed, entity |-> entity]
  ELSE LET entity == Len(em.sparse)
       IN [sparse |-> Append(em.sparse, Some(EntityData_new(entity))),
           destroyed |-> em.destroyed, entity |-> entity]

EntityManager_spawn(em) ==
  IF Len(em.destroyed) > 0
  THEN LET entity_data == em.destroyed[Len(em.destroyed)]
           entity == entity_data.owner
       IN [sparse |-> VecSet(em.sparse, entity, Some(entity_data)),
           destroyed |-> VecPop(em.destroyed), entity |-> entity]
  ELSE LET entity == Len(em.sparse)
       IN [sparse |-> Append(em.sparse, Some(EntityData_new(entity))),
           destroyed |-> em.destroyed, entity |-> entity]

EntityManager_get(em, owner) ==
  IF owner < Len(em.sparse) THEN em.sparse[owner + 1] ELSE None

\* the while loop of bind: climbs from grand_parent; when child is met as
\* an ancestor, parent is cut from its own parent.  fuel counts the climbs
\* left before the loop is known to circle for ever.
\* a bind that does not look for the child among the ancestors
BindWalkBlind(sp, parent, child, grand_parent, fuel) ==
  [sparse |-> sp, fault |-> "none"]

\* a walk that clears the parent of the node it detaches and leaves that
\* node in the child list of its former parent
RECURSIVE BindWalkKeepingChildLink(_, _, _, _, _)
BindWalkKeepingChildLink(sp, parent, child, grand_parent, fuel) ==
  IF ~SlotAlive(sp, grand_parent) THEN [sparse |-> sp, fault |-> "panic"]
  ELSE LET up == SlotData(sp, grand_parent).parent
       IN IF IsNone(up) THEN [sparse |-> sp, fault |-> "none"]
          ELSE IF child = Unwrap(up)
          THEN [sparse |-> SlotPut(sp, parent,
                             [SlotData(sp, parent) EXCEPT !.parent = None]),
                fault |-> "none"]
          ELSE IF fuel = 0 THEN [sparse |-> sp, fault |-> "hang"]
          ELSE BindWalkKeepingChildLink(sp, parent, child, Unwrap(up),
                                        fuel - 1)

\* a walk that detaches the node whose parent is child, not parent itself
RECURSIVE BindWalkDetachingBelowChild(_, _, _, _, _)
BindWalkDetachingBelowChild(sp, parent, child, grand_parent, fuel) ==
  IF ~SlotAlive(sp, grand_parent) THEN [sparse |-> sp, fault |-> "panic"]
  ELSE LET up == SlotData(sp, grand_parent).parent
       IN IF IsNone(up) THEN [sparse |-> sp, fault |-> "none"]
          ELSE IF child = Unwrap(up)
          THEN LET r == EntityData_set_parent(SlotData(sp, grand_parent), None)
                   sp1 == SlotPut(sp, grand_parent, r.data)
                   rc == EntityData_remove_child(SlotData(sp1, child),
                                                 grand_parent)
               IN [sparse |-> SlotPut(sp1, child, rc.data), fault |-> rc.fault]
          ELSE IF fuel = 0 THEN [sparse |-> sp, fault |-> "hang"]
          ELSE BindWalkDetachingBelowChild(sp, parent, child, Unwrap(up),
                                           fuel - 1)

RECURSIVE BindWalk(_, _, _, _, _)
BindWalk(sp, parent, child, grand_parent, fuel) ==
  IF ~SlotAlive(sp, grand_parent) THEN [sparse |-> sp, fault |-> "panic"]
  ELSE LET up == SlotData(sp, grand_parent).parent
       IN IF IsNone(up) THEN [sparse |-> sp, fault |-> "none"]
          ELSE IF child = Unwrap(up)
          THEN LET parent_data == SlotData(sp, parent)
               IN IF IsNone(parent_data.parent)
                  THEN [sparse |-> sp, fault |-> "panic"]
                  ELSE LET gp == Unwrap(parent_data.parent)
                           r == EntityData_set_parent(parent_data, None)
                           sp1 == SlotPut(sp, parent, r.data)
                       IN IF ~r.ok \/ ~SlotAlive(sp1, gp)
                          THEN [sparse |-> sp, fault |-> "panic"]
                          ELSE LET rc == EntityData_remove_child(
                                            SlotData(sp1, gp), parent)
                               IN [sparse |-> SlotPut(sp1, gp, rc.data),
                                   fault |-> rc.fault]
          ELSE IF fuel = 0 THEN [sparse |-> sp, fault |-> "hang"]
          ELSE BindWalk(sp, parent, child, Unwrap(up), fuel - 1)

\* a bind that leaves child in the child list of the parent it had
EntityManagerBindKeepingOldLink(em, parent, child) ==
  LET sp == em.sparse
      same == [sparse |-> sp, destroyed |-> em.destroyed, fault |-> "none"]
      bad(f) == [sparse |-> sp, destroyed |-> em.destroyed, fault |-> f]
  IN IF parent = child \/ ~SlotAlive(sp, parent) \/ ~SlotAlive(sp, child)
     THEN same
     ELSE LET s2 == BindWalk(sp, parent, child, parent, Len(sp))
          IN IF s2.fault /= "none" THEN bad(s2.fault)
             ELSE LET rp == EntityData_set_parent(
                               SlotData(s2.sparse, child), Some(parent))
                      s3 == SlotPut(s2.sparse, child, rp.data)
                      ri == EntityData_insert_child(
                               SlotData(s3, parent), child)
                  IN IF ~rp.ok \/ ~ri.ok THEN bad("panic")
                     ELSE [sparse |-> SlotPut(s3, parent, ri.data),
                           destroyed |-> em.destroyed,
                           fault |-> "none"]

\* a bind whose guard does not look at child's slot and lists a dead or
\* never issued child under parent
EntityManagerBindUncheckedChild(em, parent, child) ==
  LET sp == em.sparse
      same == [sparse |-> sp, destroyed |-> em.destroyed, fault |-> "none"]
      bad(f) == [sparse |-> sp, destroyed |-> em.destroyed, fault |-> f]
  IN IF parent = child \/ ~SlotAlive(sp, parent) THEN same
     ELSE IF ~SlotAlive(sp, child)
     THEN LET ri == EntityData_insert_child(SlotData(sp, parent), child)
          IN [sparse |-> SlotPut(sp, parent, ri.data),
              destroyed |-> em.destroyed, fault |-> "none"]
     ELSE LET old == SlotData(sp, child).parent
              s1 == IF IsNone(old) THEN [sparse |-> sp, fault |-> "none"]
                    ELSE IF ~SlotAlive(sp, Unwrap(old))
                    THEN [sparse |-> sp, fault |-> "panic"]
                    ELSE LET rc == EntityData_remove_child(
                                      SlotData(sp, Unwrap(old)), child)
                         IN [sparse |-> SlotPut(sp, Unwrap(old), rc.data),
                             fault |-> rc.fault]
          IN IF s1.fault /= "none" THEN bad(s1.fault)
             ELSE LET s2 == BindWalk(s1.sparse, parent, child, parent,
                                     Len(sp))
                  IN IF s2.fault /= "none" THEN bad(s2.fault)
                     ELSE LET rp == EntityData_set_parent(
                                       SlotData(s2.sparse, child), Some(parent))
                              s3 == SlotPut(s2.sparse, child, rp.data)
                              ri == EntityData_insert_child(
                                       SlotData(s3, parent), child)
                          IN IF ~rp.ok \/ ~ri.ok THEN bad("panic")
                             ELSE [sparse |-> SlotPut(s3, parent, ri.data),
                                   destroyed |-> em.destroyed,
                                   fault |-> "none"]

EntityManager_bind(em, parent, child) ==
  LET sp == em.sparse
      same == [sparse |-> sp, destroyed |-> em.destroyed, fault |-> "none"]
      bad(f) == [sparse |-> sp, destroyed |-> em.destroyed, fault |-> f]
  IN IF parent = child \/ ~SlotAlive(sp, parent) \/ ~SlotAlive(sp, child)
     THEN same
     ELSE LET old == SlotData(sp, child).parent
              s1 == IF IsNone(old) THEN [sparse |-> sp, fault |-> "none"]
                    ELSE IF ~SlotAlive(sp, Unwrap(old))
                    THEN [sparse |-> sp, fault |-> "panic"]
                    ELSE LET rc == EntityData_remove_child(
                                      SlotData(sp, Unwrap(old)), child)
                         IN [sparse |-> SlotPut(sp, Unwrap(old), rc.data),
                             fault |-> rc.fault]
          IN IF s1.fault /= "none" THEN bad(s1.fault)
             ELSE LET s2 == BindWalk(s1.sparse, parent, child, parent,
                                     Len(sp))
                  IN IF s2.fault /= "none" THEN bad(s2.fault)
                     ELSE LET rp == EntityData_set_parent(
                                       SlotData(s2.sparse, child), Some(parent))
                              s3 == SlotPut(s2.sparse, child, rp.data)
                              ri == EntityData_insert_child(
                                       SlotData(s3, parent), child)
                          IN IF ~rp.ok \/ ~ri.ok THEN bad("panic")
                             ELSE [sparse |-> SlotPut(s3, parent, ri.data),
                                   destroyed |-> em.destroyed,
                                   fault |-> "none"]

\* an unbind that clears child's parent and leaves the parent's child list
EntityManagerUnbindKeepingChildLink(em, child) ==
  LET sp == em.sparse
      same == [sparse |-> sp, destroyed |-> em.destroyed, fault |-> "none"]
  IN IF ~SlotAlive(sp, child) \/ IsNone(SlotData(sp, child).parent)
     THEN same
     ELSE LET r == EntityData_set_parent(SlotData(sp, child), None)
          IN [sparse |-> SlotPut(sp, child, r.data),
              destroyed |-> em.destroyed, fault |-> "none"]

EntityManager_unbind(em, child) ==
  LET sp == em.sparse
      same == [sparse |-> sp, destroyed |-> em.destroyed, fault |-> "none"]
  IN IF ~SlotAlive(sp, child) \/ IsNone(SlotData(sp, child).parent)
     THEN same
     ELSE LET parent == Unwrap(SlotData(sp, child).parent)
              r == EntityData_set_parent(SlotData(sp, child), None)
              s1 == SlotPut(sp, child, r.data)
          IN IF ~r.ok \/ ~SlotAlive(s1, parent)
             THEN [same EXCEPT !.fault = "panic"]
             ELSE LET rc == EntityData_remove_child(SlotData(s1, parent), child)
                  IN [sparse |-> SlotPut(s1, parent, rc.data),
                      destroyed |-> em.destroyed, fault |-> rc.fault]

\* destroy_branch takes the record out of its slot, destroys the children in
\* the order of the child list, then clears the record and pushes it on the
\* free list
\* a destroy_branch that leaves the children alive
DestroyBranchOrphaning(st, entity) ==
  IF st.fault /= "none" THEN st
  ELSE IF ~SlotAlive(st.sparse, entity) THEN [st EXCEPT !.fault = "panic"]
  ELSE [st EXCEPT !.sparse = VecSet(st.sparse, entity, None),
                  !.destroyed = Append(st.destroyed,
                       EntityData_clear(SlotData(st.sparse, entity)))]

RECURSIVE EntityManager_destroy_branch(_, _)
RECURSIVE DestroyChildren(_, _, _)
DestroyChildren(st, children, k) ==
  IF k > Len(children) \/ st.fault /= "none" THEN st
  ELSE DestroyChildren(EntityManager_destroy_branch(st, children[k]),
                       children, k + 1)

EntityManager_destroy_branch(st, entity) ==
  IF st.fault /= "none" THEN st
  ELSE IF ~SlotAlive(st.sparse, entity) THEN [st EXCEPT !.fault = "panic"]
  ELSE LET entity_data == SlotData(st.sparse, entity)
           taken == [st EXCEPT !.sparse = VecSet(st.sparse, entity, None)]
           after == DestroyChildren(taken, entity_data.dense, 1)
       IN IF after.fault /= "none" THEN after
          ELSE [after EXCEPT !.destroyed =
                   Append(after.destroyed, EntityData_clear(entity_data))]

\* a destroy that leaves the entity in the child list of its parent
EntityManagerDestroyKeepingParentLink(em, entity) ==
  LET sp == em.sparse
      same == [sparse |-> sp, destroyed |-> em.destroyed, fault |-> "none"]
  IN IF ~SlotAlive(sp, entity) THEN same
     ELSE EntityManager_destroy_branch(same, entity)

EntityManager_destroy(em, entity) ==
  LET sp == em.sparse
      same == [sparse |-> sp, destroyed |-> em.destroyed, fault |-> "none"]
  IN IF ~SlotAlive(sp, entity) THEN same
     ELSE LET up == SlotData(sp, entity).parent
          IN IF IsNone(up) THEN EntityManager_destroy_branch(same, entity)
             ELSE IF ~SlotAlive(sp, Unwrap(up))
             THEN [same EXCEPT !.fault = "panic"]
             ELSE LET rc == EntityData_remove_child(
                               SlotData(sp, Unwrap(up)), entity)
                  IN IF rc.fault /= "none"
                     THEN [same EXCEPT !.fault = rc.fault]
                     ELSE EntityManager_destroy_branch(
                             [same EXCEPT !.sparse =
                                 SlotPut(sp, Unwrap(up), rc.data)], entity)

\* EntityManager::archetype: the archetype of an alive entity, else None
EntityManager_archetype(em, owner) ==
  IF SlotAlive(em.sparse, owner)
  THEN Some(SlotData(em.sparse, owner).archetype) ELSE None

\* ------------------------------------------------------------ ComponentPool
\* a pool is [dense, owners, sparse]; a mutation yields [pool, ret, fault]
ComponentPool_new == [dense |-> << >>, owners |-> << >>, sparse |-> << >>]

ComponentPool_new_with_initial(owner, component) ==
  [dense |-> << component >>, owners |-> << owner >>,
   sparse |-> << Some(owner) >>]

ComponentPool_insert(p, owner, component) ==
  LET sp == IF Len(p.sparse) <= owner
            THEN VecResize(p.sparse, owner + 1, None) ELSE p.sparse
  IN IF IsSome(sp[owner + 1])
     THEN LET index == Unwrap(sp[owner + 1])
          IN IF index >= Len(p.dense)
             THEN [pool |-> [p EXCEPT !.sparse = sp], ret |-> None,
                   fault |-> "panic"]
             ELSE [pool |-> [p EXCEPT !.sparse = sp,
                                      !.dense = VecSet(p.dense, index, component)],
                   ret |-> Some(p.dense[index + 1]), fault |-> "none"]
     ELSE [pool |-> [dense |-> Append(p.dense, component),
                     owners |-> Append(p.owners, owner),
                     sparse |-> VecSet(sp, owner, Some(Len(p.dense)))],
           ret |-> None, fault |-> "none"]

ComponentPool_has(p, owner) ==
  owner < Len(p.sparse) /\ IsSome(p.sparse[owner + 1])

\* yields [ret, fault]
ComponentPool_get(p, owner) ==
  IF ~ComponentPool_has(p, owner) THEN [ret |-> None, fault |-> "none"]
  ELSE LET index == Unwrap(p.sparse[owner + 1])
       IN IF index >= Len(p.dense) THEN [ret |-> None, fault |-> "panic"]
          ELSE [ret |-> Some(p.dense[index + 1]), fault |-> "none"]

ComponentPool_remove(p, owner) ==
  IF ~ComponentPool_has(p, owner)
  THEN [pool |-> p, ret |-> None, fault |-> "none"]
  ELSE LET index == Unwrap(p.sparse[owner + 1])
           sp == VecSet(p.sparse, owner, None)
           cleared == [p EXCEPT !.sparse = sp]
       IN IF Len(p.dense) = 0
          THEN [pool |-> cleared, ret |-> None, fault |-> "panic"]
          ELSE IF index = Len(p.dense) - 1
          THEN IF Len(p.owners) = 0
               THEN [pool |-> cleared, ret |-> None, fault |-> "panic"]
               ELSE [pool |-> [dense |-> VecPop(p.dense),
                               owners |-> VecPop(p.owners), sparse |-> sp],
                     ret |-> Some(p.dense[index + 1]), fault |-> "none"]
          ELSE IF index >= Len(p.owners)
          THEN [pool |-> cleared, ret |-> None, fault |-> "panic"]
          ELSE LET ow == VecSwapRemove(p.owners, index)
               IN IF index >= Len(ow) \/ ow[index + 1] >= Len(sp)
                     \/ index >= Len(p.dense)
                  THEN [pool |-> cleared, ret |-> None, fault |-> "panic"]
                  ELSE [pool |-> [dense |-> VecSwapRemove(p.dense, index),
                                  owners |-> ow,
                                  sparse |-> VecSet(sp, ow[index + 1],
                                                    Some(index))],
                        ret |-> Some(p.dense[index + 1]), fault |-> "none"]

ComponentPool_destroy(p, owner) ==
  LET r == ComponentPool_remove(p, owner)
  IN [pool |-> r.pool, ret |-> None, fault |-> r.fault]

ComponentPool_clear(p) ==
  [dense |-> << >>, owners |-> << >>,
   sparse |-> [k \in DOMAIN p.sparse |-> None]]

\* --------------------------------------------------------- ComponentManager
\* a ComponentManager is [ids, pools]: ids maps a type to Some(pool index)
ComponentManager_new == [ids |-> [t \in Types |-> None], pools |-> << >>]

ComponentManager_id(cm, T) == cm.ids[T]

\* a register that makes a new pool on every call
ComponentManagerRegisterAnew(cm, T) ==
  [components |-> [ids |-> [cm.ids EXCEPT ![T] = Some(Len(cm.pools))],
                   pools |-> Append(cm.pools, ComponentPool_new)],
   id |-> Len(cm.pools)]

\* yields [components, id]
ComponentManager_register(cm, T) ==
  IF IsSome(cm.ids[T]) THEN [components |-> cm, id |-> Unwrap(cm.ids[T])]
  ELSE [components |-> [ids |-> [cm.ids EXCEPT ![T] = Some(Len(cm.pools))],
                        pools |-> Append(cm.pools, ComponentPool_new)],
        id |-> Len(cm.pools)]

\* the pool of T, None when T was never registered
ComponentManager_pool(cm, T) ==
  IF IsSome(cm.ids[T]) THEN Some(cm.pools[Unwrap(cm.ids[T]) + 1]) ELSE None

\* yields [ret, fault]
ComponentManager_get(cm, T, owner) ==
  IF IsNone(ComponentManager_pool(cm, T))
  THEN [ret |-> None, fault |-> "none"]
  ELSE ComponentPool_get(Unwrap(ComponentManager_pool(cm, T)), owner)

ComponentManager_owners(cm, T) ==
  IF IsNone(ComponentManager_pool(cm, T)) THEN << >>
  ELSE Unwrap(ComponentManager_pool(cm, T)).owners

\* yields [components, ret, fault]
ComponentManager_remove(cm, T, owner) ==
  IF IsNone(cm.ids[T]) THEN [components |-> cm, ret |-> None, fault |-> "none"]
  ELSE LET id == Unwrap(cm.ids[T])
           r == ComponentPool_remove(cm.pools[id + 1], owner)
       IN [components |-> [cm EXCEPT !.pools[id + 1] = r.pool],
           ret |-> r.ret, fault |-> r.fault]

\* the sweep of every pool for one owner; yields [components, fault]
RECURSIVE DestroyInPools(_, _, _)
DestroyInPools(st, owner, k) ==
  IF k > Len(st.components.pools) \/ st.fault /= "none" THEN st
  ELSE LET r == ComponentPool_destroy(st.components.pools[k], owner)
       IN DestroyInPools([components |-> [st.components EXCEPT !.pools[k] = r.pool],
                          fault |-> r.fault], owner, k + 1)

\* a destroy that sweeps no pool
ComponentManagerDestroyNothing(cm, owner) ==
  [components |-> cm, fault |-> "none"]

ComponentManager_destroy(cm, owner) ==
  DestroyInPools([components |-> cm, fault |-> "none"], owner, 1)

\* ComponentManager::add of a registered type: the component comes back as
\* the error when the owner already holds one; yields [components, ok, fault]
ComponentManager_add(cm, T, owner, component) ==
  LET id == Unwrap(cm.ids[T])
  IN IF ComponentPool_has(cm.pools[id + 1], owner)
     THEN [components |-> cm, ok |-> FALSE, fault |-> "none"]
     ELSE LET r == ComponentPool_insert(cm.pools[id + 1], owner, component)
          IN [components |-> [cm EXCEPT !.pools[id + 1] = r.pool],
              ok |-> TRUE, fault |-> r.fault]

\* yields [components, ret, fault]
ComponentManager_insert(cm, T, owner, component) ==
  IF IsSome(cm.ids[T])
  THEN LET id == Unwrap(cm.ids[T])
           r == ComponentPool_insert(cm.pools[id + 1], owner, component)
       IN [components |-> [cm EXCEPT !.pools[id + 1] = r.pool],
           ret |-> r.ret, fault |-> r.fault]
  ELSE [components |->
          [ids |-> [cm.ids EXCEPT ![T] = Some(Len(cm.pools))],
           pools |-> Append(cm.pools,
                            ComponentPool_new_with_initial(owner, component))],
        ret |-> None, fault |-> "none"]

ComponentManager_has(cm, T, owner) ==
  /\ IsSome(ComponentManager_pool(cm, T))
  /\ ComponentPool_has(Unwrap(ComponentManager_pool(cm, T)), owner)

ComponentManager_clear(cm) ==
  [cm EXCEPT !.pools = [k \in DOMAIN cm.pools |-> ComponentPool_clear(cm.pools[k])]]


\* ------------------------------------------------------------------ Manager
\* a Manager is [entities, components, sparse, dense, next]; a call yields
\* [manager, ret, fault]
Manager_new ==
  [entities |-> EntityManager_new, components |-> ComponentManager_new,
   sparse |-> << >>, dense |-> << >>, next |-> 0]

\* a set_changed that puts the entity at the head of the queue
ManagerSetChangedInFront(m, entity) ==
  LET sp == IF Len(m.sparse) <= entity
            THEN VecResize(m.sparse, entity + 1, FALSE) ELSE m.sparse
  IN IF ~sp[entity + 1]
     THEN [m EXCEPT !.sparse = VecSet(sp, entity, TRUE),
                    !.dense = << entity >> \o m.dense]
     ELSE [m EXCEPT !.sparse = sp]

Manager_set_changed(m, entity) ==
  LET sp == IF Len(m.sparse) <= entity
            THEN VecResize(m.sparse, entity + 1, FALSE) ELSE m.sparse
  IN IF ~sp[entity + 1]
     THEN [m EXCEPT !.sparse = VecSet(sp, entity, TRUE),
                    !.dense = Append(m.dense, entity)]
     ELSE [m EXCEPT !.sparse = sp]

\* a poll_changed that leaves the queued flag of the entity it returns set
ManagerPollKeepingFlag(m) ==
  IF Len(m.dense) <= m.next
  THEN [manager |-> [m EXCEPT !.dense = << >>, !.next = 0],
        ret |-> None, fault |-> "none"]
  ELSE [manager |-> [m EXCEPT !.next = m.next + 1],
        ret |-> Some(m.dense[m.next + 1]), fault |-> "none"]

Manager_poll_changed(m) ==
  IF Len(m.dense) <= m.next
  THEN [manager |-> [m EXCEPT !.dense = << >>, !.next = 0],
        ret |-> None, fault |-> "none"]
  ELSE LET entity == m.dense[m.next + 1]
       IN IF entity >= Len(m.sparse)
          THEN [manager |-> m, ret |-> None, fault |-> "panic"]
          ELSE [manager |-> [m EXCEPT !.sparse = VecSet(m.sparse, entity, FALSE),
                                      !.next = m.next + 1],
                ret |-> Some(entity), fault |-> "none"]

Manager_entity_archetype(m, owner) == EntityManager_archetype(m.entities, owner)

Manager_spawn_entity(m) ==
  LET r == EntityManager_spawn(m.entities)
  IN [manager |-> [m EXCEPT !.entities = [sparse |-> r.sparse,
                                          destroyed |-> r.destroyed]],
      ret |-> Some(r.entity), fault |-> "none"]

Manager_is_entity_alive(m, entity) ==
  IsSome(EntityManager_archetype(m.entities, entity))

Manager_has_component(m, T, owner) ==
  /\ IsSome(EntityManager_archetype(m.entities, owner))
  /\ IsSome(ComponentManager_id(m.components, T))
  /\ Archetype_has(Unwrap(EntityManager_archetype(m.entities, owner)),
                   Unwrap(ComponentManager_id(m.components, T)))

\* an add_component that stores the component before it looks at the owner
ManagerAddComponentStoringFirst(m, T, owner, component) ==
  LET reg == ComponentManager_register(m.components, T)
      added == ComponentManager_add(reg.components, T, owner, component)
      m1 == [m EXCEPT !.components = added.components]
  IN IF added.fault /= "none"
     THEN [manager |-> m1, ret |-> None, fault |-> added.fault]
     ELSE IF ~added.ok \/ IsNone(EntityManager_archetype(m.entities, owner))
     THEN [manager |-> m1, ret |-> Some(component), fault |-> "none"]
     ELSE LET d == SlotData(m.entities.sparse, owner)
              m2 == [m1 EXCEPT !.entities.sparse =
                       SlotPut(m.entities.sparse, owner,
                         [d EXCEPT !.archetype =
                                     Archetype_add(d.archetype, reg.id)])]
          IN [manager |-> Manager_set_changed(m2, owner),
              ret |-> None, fault |-> "none"]

\* an add_component that overwrites instead of rejecting
ManagerAddComponentOverwriting(m, T, owner, component) ==
  IF IsNone(EntityManager_archetype(m.entities, owner))
  THEN [manager |-> m, ret |-> Some(component), fault |-> "none"]
  ELSE LET reg == ComponentManager_register(m.components, T)
           put == ComponentManager_insert(reg.components, T, owner, component)
           d == SlotData(m.entities.sparse, owner)
           m2 == [m EXCEPT !.components = put.components,
                           !.entities.sparse =
                              SlotPut(m.entities.sparse, owner,
                                [d EXCEPT !.archetype =
                                            Archetype_add(d.archetype, reg.id)])]
       IN [manager |-> Manager_set_changed(m2, owner),
           ret |-> None, fault |-> put.fault]

\* ret is None for Ok(()) and Some(component) for Err(component)
Manager_add_component(m, T, owner, component) ==
  IF IsNone(EntityManager_archetype(m.entities, owner))
  THEN [manager |-> m, ret |-> Some(component), fault |-> "none"]
  ELSE LET reg == ComponentManager_register(m.components, T)
           added == ComponentManager_add(reg.components, T, owner, component)
           m1 == [m EXCEPT !.components = added.components]
       IN IF added.fault /= "none"
          THEN [manager |-> m1, ret |-> None, fault |-> added.fault]
          ELSE IF ~added.ok
          THEN [manager |-> m1, ret |-> Some(component), fault |-> "none"]
          ELSE LET d == SlotData(m.entities.sparse, owner)
                   m2 == [m1 EXCEPT !.entities.sparse =
                            SlotPut(m.entities.sparse, owner,
                              [d EXCEPT !.archetype =
                                          Archetype_add(d.archetype, reg.id)])]
               IN [manager |-> Manager_set_changed(m2, owner),
                   ret |-> None, fault |-> "none"]

\* yields [ret, fault]
Manager_component(m, T, owner) == ComponentManager_get(m.components, T, owner)

Manager_component_owners(m, T) == ComponentManager_owners(m.components, T)

\* a remove_component that clears the archetype bit and leaves the pool
ManagerRemoveComponentKeepingPool(m, T, owner) ==
  LET same == [manager |-> m, ret |-> None, fault |-> "none"]
  IN IF IsNone(EntityManager_archetype(m.entities, owner)) THEN same
     ELSE IF IsNone(ComponentManager_id(m.components, T)) THEN same
     ELSE LET component_id == Unwrap(ComponentManager_id(m.components, T))
              d == SlotData(m.entities.sparse, owner)
          IN IF ~Archetype_has(d.archetype, component_id) THEN same
             ELSE [manager |->
                     Manager_set_changed(
                       [m EXCEPT !.entities.sparse =
                          SlotPut(m.entities.sparse, owner,
                            [d EXCEPT !.archetype =
                               Archetype_remove(d.archetype, component_id)])],
                       owner),
                   ret |-> None, fault |-> "none"]

Manager_remove_component(m, T, owner) ==
  LET same == [manager |-> m, ret |-> None, fault |-> "none"]
  IN IF IsNone(EntityManager_archetype(m.entities, owner)) THEN same
     ELSE IF IsNone(ComponentManager_id(m.components, T)) THEN same
     ELSE LET component_id == Unwrap(ComponentManager_id(m.components, T))
              d == SlotData(m.entities.sparse, owner)
          IN IF ~Archetype_has(d.archetype, component_id) THEN same
             ELSE LET r == ComponentManager_remove(m.components, T, owner)
                      m1 == [m EXCEPT
                               !.components = r.components,
                               !.entities.sparse =
                                  SlotPut(m.entities.sparse, owner,
                                    [d EXCEPT !.archetype =
                                       Archetype_remove(d.archetype, component_id)])]
                  IN IF r.fault /= "none"
                     THEN [manager |-> m1, ret |-> None, fault |-> r.fault]
                     ELSE [manager |-> Manager_set_changed(m1, owner),
                           ret |-> None, fault |-> "none"]

Manager_destroy_entity(m, entity) ==
  LET swept == ComponentManager_destroy(m.components, entity)
      m1 == [m EXCEPT !.components = swept.components]
  IN IF swept.fault /= "none"
     THEN [manager |-> m1, ret |-> None, fault |-> swept.fault]
     ELSE LET r == EntityManager_destroy(m.entities, entity)
              m2 == [m1 EXCEPT !.entities = [sparse |-> r.sparse,
                                             destroyed |-> r.destroyed]]
          IN IF r.fault /= "none"
             THEN [manager |-> m2, ret |-> None, fault |-> r.fault]
             ELSE [manager |-> Manager_set_changed(m2, entity),
                   ret |-> None, fault |-> "none"]


\* ------------------------------------------------------------------- System
\* a System is [archetype, antitype, sparse, dense]; a mutation yields
\* [system, fault]
System_new(archetype, antitype) ==
  [archetype |-> archetype, antitype |-> antitype,
   sparse |-> << >>, dense |-> << >>]

System_remove_unchecked(s, index) ==
  LET last_index == Len(s.dense) - 1
  IN IF Len(s.dense) = 0 \/ index > last_index
     THEN [system |-> s, fault |-> "panic"]
     ELSE LET dn == IF index /= last_index
                    THEN VecSwap(s.dense, index, last_index) ELSE s.dense
              swapped == dn[index + 1]
          IN IF (index /= last_index /\ swapped >= Len(s.sparse))
                \/ index >= Len(s.sparse)
             THEN [system |-> s, fault |-> "panic"]
             ELSE LET sp == IF index /= last_index
                            THEN VecSet(s.sparse, swapped, Some(index))
                            ELSE s.sparse
                  IN [system |-> [s EXCEPT !.dense = VecPop(dn),
                                           !.sparse = VecSet(sp, index, None)],
                      fault |-> "none"]

\* the predicate of evaluate, as the code computes it
SystemAccepts(s, archetype) ==
  /\ Archetype_is_subset_of(s.archetype, archetype)
  /\ ~Archetype_has_common_with(s.antitype, archetype)

System_evaluate(s, entity, archetype) ==
  IF entity < Len(s.sparse) /\ IsSome(s.sparse[entity + 1])
  THEN IF ~SystemAccepts(s, archetype)
       THEN System_remove_unchecked(s, Unwrap(s.sparse[entity + 1]))
       ELSE [system |-> s, fault |-> "none"]
  ELSE IF SystemAccepts(s, archetype)
  THEN LET sp == IF Len(s.sparse) <= entity
                 THEN VecResize(s.sparse, entity + 1, None) ELSE s.sparse
       IN [system |-> [s EXCEPT !.sparse = VecSet(sp, entity, Some(Len(s.dense))),
                                !.dense = Append(s.dense, entity)],
           fault |-> "none"]
  ELSE [system |-> s, fault |-> "none"]

System_remove(s, entity) ==
  IF entity < Len(s.sparse) /\ IsSome(s.sparse[entity + 1])
  THEN System_remove_unchecked(s, Unwrap(s.sparse[entity + 1]))
  ELSE [system |-> s, fault |-> "none"]


\* ------------------------------------------------- hierarchy, read from a state
Alive(em, e) == SlotAlive(em.sparse, e)
AliveSet(em) == { e \in 0 .. (Len(em.sparse) - 1) : Alive(em, e) }
ParentOf(em, e) == SlotData(em.sparse, e).parent
ChildSet(em, e) == Elems(SlotData(em.sparse, e).dense)
\* EntityData::children: the child list in its order
Children(em, e) == SlotData(em.sparse, e).dense

\* the entities reached from e by following parent pointers at most n times
RECURSIVE Ancestors(_, _, _)
Ancestors(em, e, n) ==
  IF n = 0 \/ ~Alive(em, e) \/ IsNone(ParentOf(em, e)) THEN {}
  ELSE {Unwrap(ParentOf(em, e))}
         \cup Ancestors(em, Unwrap(ParentOf(em, e)), n - 1)

\* how many parent pointers lead from e up to a, 0 when a is not reached
\* within n
RECURSIVE StepsUp(_, _, _, _)
StepsUp(em, e, a, n) ==
  IF n = 0 \/ ~Alive(em, e) \/ IsNone(ParentOf(em, e)) THEN 0
  ELSE IF Unwrap(ParentOf(em, e)) = a THEN 1
  ELSE LET above == StepsUp(em, Unwrap(ParentOf(em, e)), a, n - 1)
       IN IF above = 0 THEN 0 ELSE above + 1

\* e and everything below it in the child lists, to depth n
RECURSIVE Subtree(_, _, _)
Subtree(em, e, n) ==
  IF ~Alive(em, e) THEN {}
  ELSE IF n = 0 THEN {e}
  ELSE {e} \cup UNION { Subtree(em, c, n - 1) : c \in ChildSet(em, e) }

\* following parent pointers from e reaches a root within n steps
RECURSIVE ReachesRoot(_, _, _)
ReachesRoot(em, e, n) ==
  IF ~Alive(em, e) THEN FALSE
  ELSE IF IsNone(ParentOf(em, e)) THEN TRUE
  ELSE IF n = 0 THEN FALSE
  ELSE ReachesRoot(em, Unwrap(ParentOf(em, e)), n - 1)

\* ==================================================================== state
VARIABLES
  entities,    \* Manager.entities : EntityManager  [sparse, destroyed]
  components,  \* Manager.components : ComponentManager  [ids, pools]
  sparse,      \* Manager.sparse : Vec<bool>, the queued flags
  dense,       \* Manager.dense : Vec<Entity>, the change queue
  next,        \* Manager.next : position of the next entry to poll
  systems,     \* World.systems : Vec<System>
  pc,          \* where World::run stands: "idle", "callback" or "drain"
  cur,         \* the index i of the for loop of World::run
  pool,        \* a ComponentPool<T> used on its own
  system,      \* a System used on its own
  named,       \* per entity, the last call on that System that named it
  touched,     \* the entities the callbacks of the running tick have changed
  archetypes,  \* two Archetypes used on their own
  is_context_initialized,  \* the static IS_CONTEXT_INITIALIZED
  threads,     \* per thread, where its call of Context::new or drop stands
  fault,       \* "none", "panic" or "hang"
  last         \* the last call made: [op, a, b, ret]

vars == << entities, components, sparse, dense, next, systems, pc, cur,
           touched,
           pool, system, named, archetypes, is_context_initialized, threads,
           fault, last >>

managerVars == << components, sparse, dense, next >>
worldVars == << systems, pc, cur, touched >>
contextVars == << is_context_initialized, threads >>
aloneVars == << pool, system, named, archetypes, contextVars >>

Call(op, a, b, ret) == [op |-> op, a |-> a, b |-> b, ret |-> ret]
NoCall == Call("new", -1, -1, None)

\* ===================================================== EntityManager on its own
EntitiesInit ==
  /\ archetypes = << >> /\ is_context_initialized = FALSE /\ threads = << >>
  /\ entities = EntityManager_new
  /\ components = << >> /\ sparse = << >> /\ dense = << >> /\ next = 0
  /\ systems = << >> /\ pc = "idle" /\ cur = 0 /\ touched = {}
  /\ pool = << >> /\ system = << >> /\ named = << >>
  /\ fault = "none" /\ last = NoCall

SetEntities(r) ==
  /\ entities' = [sparse |-> r.sparse, destroyed |-> r.destroyed]
  /\ fault' = r.fault

EntitiesSpawn ==
  /\ fault = "none"
  /\ Len(entities.destroyed) > 0 \/ Len(entities.sparse) < MaxEntities
  /\ LET r == EntityManager_spawn(entities)
     IN /\ entities' = [sparse |-> r.sparse, destroyed |-> r.destroyed]
        /\ last' = Call("spawn", -1, -1, Some(r.entity))
  /\ UNCHANGED << managerVars, worldVars, aloneVars, fault >>

EntitiesBind ==
  /\ fault = "none"
  /\ \E parent \in EntityIds, child \in EntityIds :
       /\ SetEntities(EntityManager_bind(entities, parent, child))
       /\ last' = Call("bind", parent, child,
                       Some(StepsUp(entities, parent, child, MaxEntities)))
  /\ UNCHANGED << managerVars, worldVars, aloneVars >>

EntitiesUnbind ==
  /\ fault = "none"
  /\ \E child \in EntityIds :
       /\ SetEntities(EntityManager_unbind(entities, child))
       /\ last' = Call("unbind", child, -1, None)
  /\ UNCHANGED << managerVars, worldVars, aloneVars >>

EntitiesDestroy ==
  /\ fault = "none"
  /\ \E entity \in EntityIds :
       /\ SetEntities(EntityManager_destroy(entities, entity))
       /\ last' = Call("destroy", entity,
                       IF Alive(entities, entity)
                          /\ IsSome(ParentOf(entities, entity))
                       THEN Unwrap(ParentOf(entities, entity)) ELSE -1,
                       Some(Cardinality(Subtree(entities, entity, MaxEntities))))
  /\ UNCHANGED << managerVars, worldVars, aloneVars >>

EntitiesNext ==
  \/ EntitiesSpawn
  \/ EntitiesBind
  \/ EntitiesUnbind
  \/ EntitiesDestroy

SpecEntities == EntitiesInit /\ [][EntitiesNext]_vars


\* ===================================================== ComponentPool on its own
PoolInit ==
  /\ archetypes = << >> /\ is_context_initialized = FALSE /\ threads = << >>
  /\ entities = EntityManager_new
  /\ components = << >> /\ sparse = << >> /\ dense = << >> /\ next = 0
  /\ systems = << >> /\ pc = "idle" /\ cur = 0 /\ touched = {}
  /\ system = << >> /\ named = << >>
  /\ fault = "none"
  /\ \/ pool = ComponentPool_new /\ last = NoCall
     \/ \E owner \in OwnerIds, component \in Values :
          /\ pool = ComponentPool_new_with_initial(owner, component)
          /\ last = Call("new_with_initial", owner, component, None)

PoolFrame ==
  UNCHANGED << entities, managerVars, worldVars, system, named, archetypes,
               contextVars >>

PoolInsert ==
  /\ fault = "none"
  /\ \E owner \in OwnerIds, component \in Values :
       LET r == ComponentPool_insert(pool, owner, component)
       IN /\ pool' = r.pool /\ fault' = r.fault
          /\ last' = Call("insert", owner, component, r.ret)
  /\ PoolFrame

PoolGet ==
  /\ fault = "none"
  /\ \E owner \in OwnerIds :
       LET r == ComponentPool_get(pool, owner)
       IN /\ pool' = pool /\ fault' = r.fault
          /\ last' = Call("get", owner, -1, r.ret)
  /\ PoolFrame

PoolRemove ==
  /\ fault = "none"
  /\ \E owner \in OwnerIds :
       LET r == ComponentPool_remove(pool, owner)
       IN /\ pool' = r.pool /\ fault' = r.fault
          /\ last' = Call("remove", owner, -1, r.ret)
  /\ PoolFrame

PoolDestroy ==
  /\ fault = "none"
  /\ \E owner \in OwnerIds :
       LET r == ComponentPool_destroy(pool, owner)
       IN /\ pool' = r.pool /\ fault' = r.fault
          /\ last' = Call("destroy", owner, -1, None)
  /\ PoolFrame

PoolClear ==
  /\ fault = "none"
  /\ pool' = ComponentPool_clear(pool)
  /\ last' = Call("clear", -1, -1, None)
  /\ UNCHANGED fault
  /\ PoolFrame

PoolNext ==
  \/ PoolInsert
  \/ PoolGet
  \/ PoolRemove
  \/ PoolDestroy
  \/ PoolClear

SpecPool == PoolInit /\ [][PoolNext]_vars

\* ================================================= ComponentManager on its own
ComponentsInit ==
  /\ archetypes = << >> /\ is_context_initialized = FALSE /\ threads = << >>
  /\ entities = EntityManager_new
  /\ components = ComponentManager_new
  /\ sparse = << >> /\ dense = << >> /\ next = 0
  /\ systems = << >> /\ pc = "idle" /\ cur = 0 /\ touched = {}
  /\ pool = << >> /\ system = << >> /\ named = << >>
  /\ fault = "none" /\ last = NoCall

ComponentsFrame ==
  UNCHANGED << entities, sparse, dense, next, worldVars, aloneVars >>

\* b of the recorded call is << T, component >>
ComponentsInsert ==
  /\ fault = "none"
  /\ \E T \in Types, owner \in PoolOwnerIds, component \in Values :
       LET r == ComponentManager_insert(components, T, owner, component)
       IN /\ components' = r.components /\ fault' = r.fault
          /\ last' = Call("insert", owner, << T, component >>, r.ret)
  /\ ComponentsFrame

ComponentsRegister ==
  /\ fault = "none"
  /\ \E T \in Types :
       LET r == ComponentManager_register(components, T)
       IN /\ components' = r.components
          /\ last' = Call("register", -1, << T >>, Some(r.id))
  /\ UNCHANGED fault
  /\ ComponentsFrame

ComponentsRemove ==
  /\ fault = "none"
  /\ \E T \in Types, owner \in PoolOwnerIds :
       LET r == ComponentManager_remove(components, T, owner)
       IN /\ components' = r.components /\ fault' = r.fault
          /\ last' = Call("remove", owner, << T >>, r.ret)
  /\ ComponentsFrame

ComponentsDestroy ==
  /\ fault = "none"
  /\ \E owner \in PoolOwnerIds :
       LET r == ComponentManager_destroy(components, owner)
       IN /\ components' = r.components /\ fault' = r.fault
          /\ last' = Call("destroy", owner, << >>, None)
  /\ ComponentsFrame

ComponentsClear ==
  /\ fault = "none"
  /\ components' = ComponentManager_clear(components)
  /\ last' = Call("clear", -1, << >>, None)
  /\ UNCHANGED fault
  /\ ComponentsFrame

ComponentsNext ==
  \/ ComponentsInsert
  \/ ComponentsRegister
  \/ ComponentsRemove
  \/ ComponentsDestroy
  \/ ComponentsClear

SpecComponents == ComponentsInit /\ [][ComponentsNext]_vars

\* ========================================================= Archetype on its own
\* two archetypes a = archetypes[1] and b = archetypes[2]; named[k] is the
\* set of ids whose last add on archetype k was followed by no remove of
\* that id and no reset
ArchetypeInit ==
  /\ entities = EntityManager_new
  /\ components = << >> /\ sparse = << >> /\ dense = << >> /\ next = 0
  /\ systems = << >> /\ pc = "idle" /\ cur = 0 /\ touched = {}
  /\ pool = << >> /\ system = << >>
  /\ is_context_initialized = FALSE /\ threads = << >>
  /\ archetypes = << Archetype_new, Archetype_new >>
  /\ named = << {}, {} >>
  /\ fault = "none" /\ last = NoCall

ArchetypeFrame ==
  UNCHANGED << entities, managerVars, worldVars, pool, system, contextVars,
               fault >>

ArchetypeAdd ==
  /\ \E k \in DOMAIN archetypes, id \in BitIds :
       /\ archetypes' = [archetypes EXCEPT ![k] = Archetype_add(@, id)]
       /\ named' = [named EXCEPT ![k] = @ \cup {id}]
       /\ last' = Call("add", k, id, None)
  /\ ArchetypeFrame

ArchetypeRemove ==
  /\ \E k \in DOMAIN archetypes, id \in BitIds :
       /\ archetypes' = [archetypes EXCEPT ![k] = Archetype_remove(@, id)]
       /\ named' = [named EXCEPT ![k] = @ \ {id}]
       /\ last' = Call("remove", k, id, None)
  /\ ArchetypeFrame

ArchetypeReset ==
  /\ \E k \in DOMAIN archetypes :
       /\ archetypes' = [archetypes EXCEPT ![k] = Archetype_reset(@)]
       /\ named' = [named EXCEPT ![k] = {}]
       /\ last' = Call("reset", k, -1, None)
  /\ ArchetypeFrame

\* a against b: is_subset_of, is_superset_of, == and, the other way, b == a
ArchetypeCompare ==
  /\ LET a == archetypes[1]
         b == archetypes[2]
     IN last' = Call("compare", -1, -1,
                     Some([subset |-> Archetype_is_subset_of(a, b),
                           superset |-> Archetype_is_superset_of(a, b),
                           eq |-> Archetype_eq(a, b),
                           eq_back |-> Archetype_eq(b, a)]))
  /\ UNCHANGED << archetypes, named >>
  /\ ArchetypeFrame

ArchetypeNext ==
  \/ ArchetypeAdd
  \/ ArchetypeRemove
  \/ ArchetypeReset
  \/ ArchetypeCompare

SpecArchetype == ArchetypeInit /\ [][ArchetypeNext]_vars

\* =========================================================== engine Context
\* AtomicBool::swap(value, SeqCst): one step that stores value and yields
\* what was stored before
\* a swap that stores the value and reports that nothing was stored before
AtomicBoolSwapBlind(flag, value) == [flag |-> value, old |-> FALSE]

AtomicBool_swap(flag, value) == [flag |-> value, old |-> flag]

\* a thread is [pc, ret]: pc is where its call stands ("idle" outside any
\* call, "holds" while it owns the Context that Context::new returned), ret
\* is what its last call of Context::new returned ("none" before any)
Thread(pc_, ret) == [pc |-> pc_, ret |-> ret]

\* a thread's second call of Context::new made while it owns a Context
\* runs as the call of another thread does while the owner stands still
ContextInit ==
  /\ entities = EntityManager_new
  /\ components = << >> /\ sparse = << >> /\ dense = << >> /\ next = 0
  /\ systems = << >> /\ pc = "idle" /\ cur = 0 /\ touched = {}
  /\ pool = << >> /\ system = << >> /\ named = << >> /\ archetypes = << >>
  /\ is_context_initialized = FALSE
  /\ threads = [t \in ThreadIds |-> Thread("idle", "none")]
  /\ fault = "none" /\ last = NoCall

ContextFrame ==
  UNCHANGED << entities, managerVars, worldVars, pool, system, named,
               archetypes, fault >>

\* the thread leaves its call with Err, or moves on inside it
ContextErr(t) == threads' = [threads EXCEPT ![t] = Thread("idle", "err")]
ContextGoes(t, to) == threads' = [threads EXCEPT ![t].pc = to]

\* Context::new is called: the panic hook is set
ContextSetPanicHook ==
  /\ \E t \in ThreadIds :
       /\ threads[t].pc = "idle"
       /\ threads' = [threads EXCEPT ![t] = Thread("hook", "none")]
       /\ last' = Call("set_panic_hook", t, -1, None)
  /\ UNCHANGED is_context_initialized
  /\ ContextFrame

\* if IS_CONTEXT_INITIALIZED.swap(true) { return Err(..) }
ContextSwap ==
  /\ \E t \in ThreadIds :
       /\ threads[t].pc = "hook"
       /\ LET r == AtomicBool_swap(is_context_initialized, TRUE)
          IN /\ is_context_initialized' = r.flag
             /\ IF r.old THEN ContextErr(t) ELSE ContextGoes(t, "strings")
       /\ last' = Call("swap", t, -1, None)
  /\ ContextFrame

\* the seven CString::new(..).map_err(..)?: an interior NUL stores false
\* and returns Err
ContextStrings ==
  /\ \E t \in ThreadIds, ok \in BOOLEAN :
       /\ threads[t].pc = "strings"
       /\ IF ok THEN ContextGoes(t, "metadata") /\ UNCHANGED is_context_initialized
          ELSE ContextErr(t) /\ is_context_initialized' = FALSE
       /\ last' = Call("strings", t, -1, None)
  /\ ContextFrame

\* the chain of SDL_SetAppMetadataProperty calls: a failure stores false
\* and returns Err
ContextMetadata ==
  /\ \E t \in ThreadIds, ok \in BOOLEAN :
       /\ threads[t].pc = "metadata"
       /\ IF ok THEN ContextGoes(t, "subsystems") /\ UNCHANGED is_context_initialized
          ELSE ContextErr(t) /\ is_context_initialized' = FALSE
       /\ last' = Call("metadata", t, -1, None)
  /\ ContextFrame

\* SDL_InitSubSystem: Ok(Self) when it succeeds, SDL_Quit when it fails
ContextInitSubSystem ==
  /\ \E t \in ThreadIds, ok \in BOOLEAN :
       /\ threads[t].pc = "subsystems"
       /\ IF ok THEN threads' = [threads EXCEPT ![t] = Thread("holds", "ok")]
          ELSE ContextGoes(t, "quit")
       /\ last' = Call("init_subsystem", t, -1, None)
  /\ UNCHANGED is_context_initialized
  /\ ContextFrame

\* after the SDL_Quit of the failed initialization: store false, return Err
ContextInitFailed ==
  /\ \E t \in ThreadIds :
       /\ threads[t].pc = "quit"
       /\ ContextErr(t) /\ is_context_initialized' = FALSE
       /\ last' = Call("init_failed", t, -1, None)
  /\ ContextFrame

\* Drop for Context: SDL_Quit
ContextDropQuit ==
  /\ \E t \in ThreadIds :
       /\ threads[t].pc = "holds"
       /\ ContextGoes(t, "dropping")
       /\ last' = Call("drop", t, -1, None)
  /\ UNCHANGED is_context_initialized
  /\ ContextFrame

\* Drop for Context: IS_CONTEXT_INITIALIZED.store(false)
ContextDropStore ==
  /\ \E t \in ThreadIds :
       /\ threads[t].pc = "dropping"
       /\ ContextGoes(t, "idle") /\ is_context_initialized' = FALSE
       /\ last' = Call("store", t, -1, None)
  /\ ContextFrame

ContextNext ==
  \/ ContextSetPanicHook
  \/ ContextSwap
  \/ ContextStrings
  \/ ContextMetadata
  \/ ContextInitSubSystem
  \/ ContextInitFailed
  \/ ContextDropQuit
  \/ ContextDropStore

SpecContext == ContextInit /\ [][ContextNext]_vars

\* ============================================================ System on its own
\* the archetype a builder makes by adding the ids of S
RECURSIVE ArchetypeOf(_)
ArchetypeOf(S) ==
  IF S = {} THEN Archetype_new
  ELSE LET id == CHOOSE x \in S : \A y \in S : y <= x
       IN Archetype_add(ArchetypeOf(S \ {id}), id)

\* an archetype that held the ids of S and of H and then lost those of H
RECURSIVE ArchetypeLess(_, _)
ArchetypeLess(a, H) ==
  IF H = {} THEN a
  ELSE LET id == CHOOSE x \in H : TRUE
       IN ArchetypeLess(Archetype_remove(a, id), H \ {id})

EntityArchetypes ==
  { ArchetypeLess(ArchetypeOf(S \cup H), H) : S \in SUBSET Types,
                                              H \in SUBSET Types }

SystemInit ==
  /\ archetypes = << >> /\ is_context_initialized = FALSE /\ threads = << >>
  /\ entities = EntityManager_new
  /\ components = << >> /\ sparse = << >> /\ dense = << >> /\ next = 0
  /\ systems = << >> /\ pc = "idle" /\ cur = 0 /\ touched = {}
  /\ pool = << >>
  /\ fault = "none" /\ last = NoCall
  /\ named = [e \in OwnerIds |-> "never"]
  /\ \E with \in SUBSET Types, without \in SUBSET Types :
       system = System_new(ArchetypeOf(with), ArchetypeOf(without))

SystemFrame ==
  UNCHANGED << entities, managerVars, worldVars, pool, archetypes,
               contextVars >>

\* the predicate of a system over the ids an archetype holds
Matches(s, archetype) ==
  /\ ArchetypeIds(s.archetype) \subseteq ArchetypeIds(archetype)
  /\ ArchetypeIds(s.antitype) \cap ArchetypeIds(archetype) = {}

SystemEvaluate ==
  /\ fault = "none"
  /\ \E entity \in OwnerIds, archetype \in EntityArchetypes :
       LET r == System_evaluate(system, entity, archetype)
           verdict == IF Matches(system, archetype) THEN "pass" ELSE "fail"
       IN /\ system' = r.system /\ fault' = r.fault
          /\ named' = [named EXCEPT ![entity] = verdict]
          /\ last' = Call("evaluate", entity, -1, None)
  /\ SystemFrame

SystemRemove ==
  /\ fault = "none"
  /\ \E entity \in OwnerIds :
       LET r == System_remove(system, entity)
       IN /\ system' = r.system /\ fault' = r.fault
          /\ named' = [named EXCEPT ![entity] = "remove"]
          /\ last' = Call("remove", entity, -1, None)
  /\ SystemFrame

SystemNext ==
  \/ SystemEvaluate
  \/ SystemRemove

SpecSystem == SystemInit /\ [][SystemNext]_vars


\* ============================================================ Manager on its own
Mgr ==
  [entities |-> entities, components |-> components, sparse |-> sparse,
   dense |-> dense, next |-> next]

SetManager(r) ==
  /\ entities' = r.manager.entities
  /\ components' = r.manager.components
  /\ sparse' = r.manager.sparse
  /\ dense' = r.manager.dense
  /\ next' = r.manager.next
  /\ fault' = r.fault

ManagerInit ==
  /\ archetypes = << >> /\ is_context_initialized = FALSE /\ threads = << >>
  /\ entities = EntityManager_new
  /\ components = ComponentManager_new
  /\ sparse = << >> /\ dense = << >> /\ next = 0
  /\ systems = << >> /\ pc = "idle" /\ cur = 0 /\ touched = {}
  /\ pool = << >> /\ system = << >> /\ named = << >>
  /\ fault = "none" /\ last = NoCall

\* the caller may act while no poll is under way, or while the queue is short
CallerRuns ==
  /\ fault = "none"
  /\ next = 0 \/ Len(dense) < MaxQueue

\* a records how many entities the call just before destroyed, b whether
\* the id comes from the free list
ManagerSpawn ==
  /\ CallerRuns
  /\ Len(entities.destroyed) > 0 \/ Len(entities.sparse) < MaxSpawn
  /\ LET r == Manager_spawn_entity(Mgr)
     IN /\ SetManager(r)
        /\ last' = Call("spawn_entity",
                        IF last.op = "destroy_entity"
                        THEN Cardinality(Unwrap(last.ret)) ELSE 0,
                        IF Len(entities.destroyed) > 0 THEN 1 ELSE 0, r.ret)
  /\ UNCHANGED << worldVars, aloneVars >>

\* add_component with the component drawn from the set given; b of the
\* recorded call is << T, component >>
ManagerAddFrom(given) ==
  /\ CallerRuns
  /\ \E owner \in SpawnIds, T \in Types, component \in given :
       LET r == Manager_add_component(Mgr, T, owner, component)
       IN /\ SetManager(r)
          /\ last' = Call("add_component", owner, << T, component >>, r.ret)
  /\ UNCHANGED << worldVars, aloneVars >>

ManagerAdd == ManagerAddFrom(Values)

\* ret records whether the owner had the component when the call was made
ManagerRemove ==
  /\ CallerRuns
  /\ \E owner \in SpawnIds, T \in Types :
       LET r == Manager_remove_component(Mgr, T, owner)
       IN /\ SetManager(r)
          /\ last' = Call("remove_component", owner, T,
                          Some(Manager_has_component(Mgr, T, owner)))
  /\ UNCHANGED << worldVars, aloneVars >>

\* ret records the entities that were alive in the subtree of the argument
ManagerDestroy ==
  /\ CallerRuns
  /\ \E entity \in SpawnIds :
       LET r == Manager_destroy_entity(Mgr, entity)
       IN /\ SetManager(r)
          /\ last' = Call("destroy_entity", entity, -1,
                          Some(Subtree(entities, entity, MaxSpawn)))
  /\ UNCHANGED << worldVars, aloneVars >>

ManagerPoll ==
  /\ fault = "none"
  /\ LET r == Manager_poll_changed(Mgr)
     IN SetManager(r) /\ last' = Call("poll_changed", -1, -1, r.ret)
  /\ UNCHANGED << worldVars, aloneVars >>

ManagerNext ==
  \/ ManagerSpawn
  \/ ManagerAdd
  \/ ManagerRemove
  \/ ManagerDestroy
  \/ ManagerPoll

SpecManager == ManagerInit /\ [][ManagerNext]_vars

\* ------------------------------------ Manager with the hierarchy within reach
\* bind and unbind of the EntityManager the Manager owns, called as they are
ManagerBind ==
  /\ CallerRuns
  /\ \E parent \in SpawnIds, child \in SpawnIds :
       LET r == EntityManager_bind(entities, parent, child)
       IN /\ entities' = [sparse |-> r.sparse, destroyed |-> r.destroyed]
          /\ fault' = r.fault
          /\ last' = Call("bind", parent, child, None)
  /\ UNCHANGED << managerVars, worldVars, aloneVars >>

ManagerUnbind ==
  /\ CallerRuns
  /\ \E child \in SpawnIds :
       LET r == EntityManager_unbind(entities, child)
       IN /\ entities' = [sparse |-> r.sparse, destroyed |-> r.destroyed]
          /\ fault' = r.fault
          /\ last' = Call("unbind", child, -1, None)
  /\ UNCHANGED << managerVars, worldVars, aloneVars >>

ManagerTreeAdd == ManagerAddFrom(Components)

ManagerTreeNext ==
  \/ ManagerSpawn
  \/ ManagerTreeAdd
  \/ ManagerRemove
  \/ ManagerDestroy
  \/ ManagerPoll
  \/ ManagerBind
  \/ ManagerUnbind

SpecManagerTree == ManagerInit /\ [][ManagerTreeNext]_vars


\* ==================================================================== World
\* World::run, for i in 0..systems.len(): the callback of system i runs (the
\* Manager calls above, while pc = "callback"), then the change queue is
\* polled until it is empty; an alive entity is evaluated by every system,
\* a dead one is removed from every system.
SystemKinds ==
  << [with |-> {0}, without |-> {}], [with |-> {}, without |-> {0}] >>

WorldInit ==
  /\ archetypes = << >> /\ is_context_initialized = FALSE /\ threads = << >>
  /\ entities = EntityManager_new
  /\ components = ComponentManager_new
  /\ sparse = << >> /\ dense = << >> /\ next = 0
  /\ systems = [k \in DOMAIN SystemKinds |->
                  System_new(ArchetypeOf(SystemKinds[k].with),
                             ArchetypeOf(SystemKinds[k].without))]
  /\ pc = "idle" /\ cur = 0 /\ touched = {}
  /\ pool = << >> /\ system = << >> /\ named = << >>
  /\ fault = "none" /\ last = NoCall

\* every system evaluates the entity; yields [systems, fault]
RECURSIVE EvaluateAll(_, _, _, _)
EvaluateAll(st, entity, archetype, k) ==
  IF k > Len(st.systems) \/ st.fault /= "none" THEN st
  ELSE LET r == System_evaluate(st.systems[k], entity, archetype)
       IN EvaluateAll([systems |-> [st.systems EXCEPT ![k] = r.system],
                       fault |-> r.fault], entity, archetype, k + 1)

\* every system removes the entity; yields [systems, fault]
RECURSIVE RemoveAll(_, _, _)
RemoveAll(st, entity, k) ==
  IF k > Len(st.systems) \/ st.fault /= "none" THEN st
  ELSE LET r == System_remove(st.systems[k], entity)
       IN RemoveAll([systems |-> [st.systems EXCEPT ![k] = r.system],
                     fault |-> r.fault], entity, k + 1)

\* the body of the while loop for one polled entity
World_dispatch(m, sys, entity) ==
  LET archetype == Manager_entity_archetype(m, entity)
      st == [systems |-> sys, fault |-> "none"]
  IN IF IsSome(archetype) THEN EvaluateAll(st, entity, Unwrap(archetype), 1)
     ELSE RemoveAll(st, entity, 1)

\* the code outside World::run, or the running callback, calls the Manager;
\* a change made by a callback is remembered until the tick ends
WorldCaller == fault = "none" /\ pc \in {"idle", "callback"}
Touch(S) == touched' = IF pc = "callback" THEN touched \cup S ELSE touched

WorldSpawn ==
  /\ WorldCaller
  /\ Len(entities.destroyed) > 0 \/ Len(entities.sparse) < MaxSpawn
  /\ LET r == Manager_spawn_entity(Mgr)
     IN SetManager(r) /\ last' = Call("spawn_entity", -1, -1, r.ret)
  /\ UNCHANGED << worldVars, aloneVars >>

WorldAdd ==
  /\ WorldCaller
  /\ \E owner \in SpawnIds, T \in WorldTypes, component \in Components :
       LET r == Manager_add_component(Mgr, T, owner, component)
       IN /\ SetManager(r)
          /\ last' = Call("add_component", owner, T, r.ret)
          /\ Touch(IF r.ret = None THEN {owner} ELSE {})
  /\ UNCHANGED << systems, pc, cur, aloneVars >>

WorldRemove ==
  /\ WorldCaller
  /\ \E owner \in SpawnIds, T \in WorldTypes :
       LET r == Manager_remove_component(Mgr, T, owner)
       IN /\ SetManager(r)
          /\ last' = Call("remove_component", owner, T, None)
          /\ Touch(IF Manager_has_component(Mgr, T, owner) THEN {owner} ELSE {})
  /\ UNCHANGED << systems, pc, cur, aloneVars >>

WorldDestroy ==
  /\ WorldCaller
  /\ \E entity \in SpawnIds :
       LET r == Manager_destroy_entity(Mgr, entity)
       IN /\ SetManager(r)
          /\ last' = Call("destroy_entity", entity, -1, None)
          /\ Touch(IF Alive(entities, entity) THEN {entity} ELSE {})
  /\ UNCHANGED << systems, pc, cur, aloneVars >>

\* World::run is called: the first callback starts
WorldRun ==
  /\ fault = "none" /\ pc = "idle" /\ Len(systems) > 0
  /\ pc' = "callback" /\ cur' = 0 /\ touched' = {}
  /\ last' = Call("callback", 0, -1, None)
  /\ UNCHANGED << entities, managerVars, systems, aloneVars, fault >>

\* the callback of system cur returns
WorldCallbackReturns ==
  /\ fault = "none" /\ pc = "callback"
  /\ pc' = "drain"
  /\ last' = Call("drain", cur, -1, None)
  /\ UNCHANGED << entities, managerVars, systems, cur, touched, aloneVars,
                  fault >>

\* one turn of the while loop: poll, then dispatch or leave the loop
WorldDrain ==
  /\ fault = "none" /\ pc = "drain"
  /\ LET r == Manager_poll_changed(Mgr)
     IN IF r.fault /= "none"
        THEN /\ SetManager(r)
             /\ UNCHANGED << systems, pc, cur, touched, last >>
        ELSE IF IsSome(r.ret)
        THEN LET d == World_dispatch(r.manager, systems, Unwrap(r.ret))
             IN /\ SetManager([r EXCEPT !.fault = d.fault])
                /\ systems' = d.systems
                /\ last' = Call("drain", cur, -1, r.ret)
                /\ UNCHANGED << pc, cur, touched >>
        ELSE /\ SetManager(r)
             /\ IF cur + 1 < Len(systems)
                THEN /\ pc' = "callback" /\ cur' = cur + 1
                     /\ last' = Call("callback", cur + 1, -1, None)
                ELSE /\ pc' = "idle" /\ cur' = 0
                     /\ last' = Call("run", -1, -1, None)
             /\ UNCHANGED << systems, touched >>
  /\ UNCHANGED aloneVars

Next ==
  \/ WorldSpawn
  \/ WorldAdd
  \/ WorldRemove
  \/ WorldDestroy
  \/ WorldRun
  \/ WorldCallbackReturns
  \/ WorldDrain

Spec == WorldInit /\ [][Next]_vars


\* ================================================================== claims
FreeIds(em) == { em.destroyed[k].owner : k \in DOMAIN em.destroyed }

\* C3: after any sequence of spawn, bind, unbind and destroy the parent
\* relation over alive entities is acyclic: from every alive entity the
\* parent pointers lead to a parentless entity, and no entity is its own
\* parent or its own child; bind neither panics nor loops for ever.
C3_ParentsAcyclic ==
  /\ fault = "none"
  /\ \A e \in AliveSet(entities) :
       /\ ReachesRoot(entities, e, Len(entities.sparse))
       /\ ParentOf(entities, e) /= Some(e)
       /\ e \notin ChildSet(entities, e)

\* a bind whose child was an ancestor of its parent has just been made, and
\* the new parent now heads a chain of two edges
C3_Witness ==
  /\ last.op = "bind" /\ last.ret = Some(1)
  /\ Alive(entities, last.b)
  /\ ParentOf(entities, last.b) = Some(last.a)
  /\ \E g \in AliveSet(entities) : ParentOf(entities, g) = Some(last.b)

\* C5: destroy(p) on an alive p makes exactly p and its descendants dead and
\* puts each of their ids on the free list; every other entity stays alive
\* with its record unchanged, except that p's former parent no longer lists
\* p as a child.
C5_DestroyStep ==
  \A p \in EntityIds :
    (last'.op = "destroy" /\ last'.a = p /\ Alive(entities, p)) =>
      LET sub == Subtree(entities, p, MaxEntities)
          up == ParentOf(entities, p)
      IN /\ fault' = "none"
         /\ AliveSet(entities') = AliveSet(entities) \ sub
         /\ FreeIds(entities') = FreeIds(entities) \cup sub
         /\ Len(entities'.destroyed)
              = Len(entities.destroyed) + Cardinality(sub)
         /\ \A e \in AliveSet(entities) \ sub :
              IF up = Some(e)
              THEN /\ ParentOf(entities', e) = ParentOf(entities, e)
                   /\ SlotData(entities'.sparse, e).archetype
                        = SlotData(entities.sparse, e).archetype
                   /\ ChildSet(entities', e) = ChildSet(entities, e) \ {p}
                   /\ Len(SlotData(entities'.sparse, e).dense)
                        = Len(SlotData(entities.sparse, e).dense) - 1
              ELSE entities'.sparse[e + 1] = entities.sparse[e + 1]

C5_DestroySubtree == [][C5_DestroyStep]_vars

\* a destroy has just taken an entity together with a descendant out of the
\* child list of a parent that stays alive
C5_Witness ==
  /\ last.op = "destroy" /\ last.ret = Some(2)
  /\ ~Alive(entities, last.a)
  /\ last.b >= 0 /\ Alive(entities, last.b)
  /\ last.a \notin ChildSet(entities, last.b)
  /\ Len(entities.destroyed) = 2

\* C7: after any sequence of evaluate and remove calls on one System, an
\* entity is in the member list if and only if the last call naming it was
\* an evaluate whose archetype holds every required id and no excluded id;
\* an entity evicted by a failing evaluate is inserted again by a later
\* passing one.
C7_MembersFollowLastCall ==
  fault = "none" =>
    \A e \in OwnerIds : (e \in Elems(system.dense)) <=> (named[e] = "pass")

\* C9: remove(e) on a pool holding n components returns e's value, leaves
\* has and get unchanged for each of the other n-1 owners and leaves n-1
\* entries in the value array and in the owner array; removing an absent
\* owner returns None and changes nothing.
C9_RemoveStep ==
  \A e \in OwnerIds :
    (last'.op = "remove" /\ last'.a = e) =>
      IF e \in Elems(pool.owners)
      THEN /\ fault' = "none"
           /\ \E k \in DOMAIN pool.owners :
                pool.owners[k] = e /\ last'.ret = Some(pool.dense[k])
           /\ \A o \in Elems(pool.owners) \ {e} :
                /\ ComponentPool_has(pool', o) = ComponentPool_has(pool, o)
                /\ ComponentPool_get(pool', o) = ComponentPool_get(pool, o)
           /\ Len(pool'.dense) = Len(pool.dense) - 1
           /\ Len(pool'.owners) = Len(pool.owners) - 1
      ELSE /\ fault' = "none"
           /\ last'.ret = None
           /\ pool' = pool

C9_RemoveKeepsOthers == [][C9_RemoveStep]_vars

\* C10: in every reachable ComponentPool state each occupied sparse slot
\* index_of[e] = s has s < owners.len() and owners[s] = e, for any owner
\* id, a non-zero id passed to new_with_initial included.
C10_SparsePointsAtOwner ==
  \A e \in 0 .. (Len(pool.sparse) - 1) :
    IsSome(pool.sparse[e + 1]) =>
      /\ Unwrap(pool.sparse[e + 1]) < Len(pool.owners)
      /\ pool.owners[Unwrap(pool.sparse[e + 1]) + 1] = e

\* the member list of a system agrees with the predicate for entity e
MemberIffMatches(s, e) ==
  (e \in Elems(s.dense)) <=>
     (Alive(entities, e)
        /\ Matches(s, SlotData(entities.sparse, e).archetype))

\* C2: when World::run returns, for every system S and every alive entity
\* E, E is in S's member list if and only if S.required is a subset of E's
\* archetype and S.excluded shares no id with it, whatever spawn,
\* add_component, remove_component and destroy_entity calls were made
\* before or during the tick.
C2_MembersMatchAfterRun ==
  last.op = "run" =>
    \A k \in DOMAIN systems : \A e \in AliveSet(entities) :
      MemberIffMatches(systems[k], e)

\* C8: within one tick, the member list passed to a later system already
\* reflects every component added or removed and every entity destroyed by
\* the callback of an earlier system.
C8_LaterSystemsSeeChanges ==
  (last.op = "callback" /\ last.a > 0) =>
    \A e \in touched : MemberIffMatches(systems[last.a + 1], e)

\* the record of an alive entity is as EntityData::new leaves it
FreshRecord(em, e) ==
  /\ Alive(em, e)
  /\ ArchetypeIds(SlotData(em.sparse, e).archetype) = {}
  /\ ParentOf(em, e) = None
  /\ SlotData(em.sparse, e).dense = << >>
  /\ \A c \in SpawnIds : ~EntityData_has_child(SlotData(em.sparse, e), c)

\* C1: after any sequence of spawn_entity, add_component, remove_component
\* and destroy_entity calls, for every alive entity E (a recycled id
\* included) and every registered type T with pool index i, E's archetype
\* has bit i if and only if T's pool holds a component owned by E.
C1_ArchetypeMirrorsPools ==
  \A e \in AliveSet(entities) : \A T \in Types :
    IsSome(ComponentManager_id(components, T)) =>
      LET i == Unwrap(ComponentManager_id(components, T))
          has_bit == Archetype_has(SlotData(entities.sparse, e).archetype, i)
      IN /\ has_bit <=> (e \in Elems(components.pools[i + 1].owners))
         /\ has_bit <=> ComponentPool_has(components.pools[i + 1], e)
         /\ has_bit <=> IsSome(Manager_component(Mgr, T, e).ret)

\* an id that held components was destroyed and is alive again, next to an
\* entity that holds components of both types
C1_Witness ==
  /\ last.op = "spawn_entity" /\ last.b = 1
  /\ SlotData(entities.sparse, Unwrap(last.ret)).archetype.count > 0
  /\ \E e \in AliveSet(entities) :
       /\ e /= Unwrap(last.ret)
       /\ \A T \in Types : Manager_has_component(Mgr, T, e)

\* C4: after destroy_entity(E) on an alive E no pool holds a component
\* owned by E or by a descendant destroyed with it: component::<T> is None
\* for each of them and component_owners::<T> lists none of them.
C4_DestroyPurgesSubtree ==
  last.op = "destroy_entity" =>
    \A e \in Unwrap(last.ret) : \A T \in Types :
      /\ Manager_component(Mgr, T, e).ret = None
      /\ e \notin Elems(Manager_component_owners(Mgr, T))

\* C6: a spawn that follows the destruction of an entity returns that
\* entity's id; spawn takes the id pushed last on the free list and issues
\* a fresh id only when the free list is empty; the entity returned is
\* alive with an empty archetype, no parent and no children.
C6_SpawnStep ==
  last'.op = "spawn_entity" =>
    /\ fault' = "none"
    /\ (last.op = "destroy_entity" /\ Unwrap(last.ret) /= {})
          => last'.ret = Some(last.a)
    /\ IF Len(entities.destroyed) > 0
       THEN /\ last'.ret = Some(entities.destroyed[Len(entities.destroyed)].owner)
            /\ Len(entities'.destroyed) = Len(entities.destroyed) - 1
            /\ Len(entities'.sparse) = Len(entities.sparse)
       ELSE /\ last'.ret = Some(Len(entities.sparse))
            /\ Len(entities'.sparse) = Len(entities.sparse) + 1
    /\ ~Alive(entities, Unwrap(last'.ret))
    /\ FreshRecord(entities', Unwrap(last'.ret))

C6_SpawnReusesId == [][C6_SpawnStep]_vars

\* the id of an entity that held a component and was destroyed together
\* with a descendant has just been issued again
C6_Witness ==
  /\ last.op = "spawn_entity" /\ last.a = 2 /\ last.b = 1
  /\ SlotData(entities.sparse, Unwrap(last.ret)).archetype.count > 0
  /\ Len(entities.destroyed) = 1

\* the value the owner array and the value array of T's pool hold for owner
HeldValue(cm, T, owner) ==
  IF IsNone(cm.ids[T]) THEN None
  ELSE LET p == cm.pools[Unwrap(cm.ids[T]) + 1]
           at == { k \in DOMAIN p.owners : p.owners[k] = owner }
       IN IF at = {} THEN None ELSE Some(p.dense[CHOOSE k \in at : TRUE])

\* C11: ComponentManager::insert(owner, c) returns the component of that
\* type the owner held before (None if it held none); afterwards
\* has::<T>(owner) is true and get::<T>(owner) is Some(c), for every owner
\* id and also for the first insert of a type never registered, and no
\* other owner's components change.
C11_InsertStep ==
  \A T \in Types, owner \in PoolOwnerIds, c \in Values :
    (last'.op = "insert" /\ last'.a = owner /\ last'.b = << T, c >>) =>
      /\ fault' = "none"
      /\ last'.ret = HeldValue(components, T, owner)
      /\ ComponentManager_has(components', T, owner)
      /\ ComponentManager_get(components', T, owner)
           = [ret |-> Some(c), fault |-> "none"]
      /\ \A T2 \in Types, o2 \in PoolOwnerIds :
           << T2, o2 >> /= << T, owner >> =>
             /\ HeldValue(components', T2, o2) = HeldValue(components, T2, o2)
             /\ ComponentManager_has(components', T2, o2)
                  = ComponentManager_has(components, T2, o2)
             /\ ComponentManager_get(components', T2, o2)
                  = ComponentManager_get(components, T2, o2)

C11_InsertStoresComponent == [][C11_InsertStep]_vars

\* C12: add_component::<T>(E, v) on an alive E that already has a T hands v
\* back as the error and leaves E's stored T, E's archetype, every pool and
\* the change queue as they were.
C12_AddStep ==
  \A E \in SpawnIds, T \in Types, v \in Values :
    (/\ last'.op = "add_component" /\ last'.a = E /\ last'.b = << T, v >>
     /\ Alive(entities, E) /\ Manager_has_component(Mgr, T, E)) =>
      /\ fault' = "none"
      /\ last'.ret = Some(v)
      /\ entities' = entities
      /\ components' = components
      /\ << sparse', dense', next' >> = << sparse, dense, next >>

C13_AddStep ==
  \A E \in SpawnIds, T \in Types, v \in Values :
    (/\ last'.op = "add_component" /\ last'.a = E /\ last'.b = << T, v >>
     /\ ~Alive(entities, E)) =>
      /\ fault' = "none"
      /\ last'.ret = Some(v)
      /\ entities' = entities
      /\ components' = components
      /\ << sparse', dense', next' >> = << sparse, dense, next >>

C13_AddToDeadRejected == [][C13_AddStep]_vars

\* an add was rejected for an id that was issued and destroyed, while pools
\* exist that hold components of others
C13_Witness ==
  /\ last.op = "add_component" /\ IsSome(last.ret)
  /\ last.a \in FreeIds(entities)
  /\ \E e \in AliveSet(entities) : Manager_has_component(Mgr, last.b[1], e)

\* C14: a lookup or mutation addressed to an entity that lacks the
\* requested component returns None and never panics, in every reachable
\* state; here for ComponentPool::get and ComponentPool::remove, with every
\* id that is not among the pool's owners.
C14_AbsentOwnerIsRejected ==
  fault = "none" =>
    \A owner \in OwnerIds \ Elems(pool.owners) :
      /\ ComponentPool_get(pool, owner) = [ret |-> None, fault |-> "none"]
      /\ ComponentPool_remove(pool, owner).fault = "none"
      /\ ComponentPool_remove(pool, owner).ret = None

\* the entries of the change queue poll_changed has yet to return
Pending == { dense[k] : k \in (next + 1) .. Len(dense) }

\* C15: after destroy_entity(p) on an alive p the change queue holds p and
\* every descendant destroyed with it, so poll_changed returns each of them
\* before it reports the queue empty.
C15_DestroyEnqueuesSubtree ==
  (last.op = "destroy_entity" /\ fault = "none") =>
    \A e \in Unwrap(last.ret) : e \in Pending

\* the places at which e stands among the entries of queue d not yet
\* returned when the cursor is n
PendingSlots(d, n, e) == { k \in (n + 1) .. Len(d) : d[k] = e }

\* the calls of a step that succeed, each with the entity it affects
C16_Succeeds(e) ==
  \/ last'.op = "spawn_entity" /\ last'.ret = Some(e)
  \/ last'.op = "add_component" /\ last'.a = e /\ last'.ret = None
  \/ /\ last'.op = "remove_component" /\ last'.a = e
     /\ Alive(entities, e) /\ Manager_has_component(Mgr, last'.b, e)
  \/ last'.op = "destroy_entity" /\ last'.a = e /\ Alive(entities, e)

\* C16: every add_component, remove_component, spawn_entity and
\* destroy_entity that succeeds leaves the affected entity in the change
\* queue exactly once, however many changes were made to it since the queue
\* was drained; spawn_entity enqueues the entity it returns.
C16_ChangeStep ==
  \A e \in SpawnIds :
    C16_Succeeds(e) =>
      fault' = "none" /\ Cardinality(PendingSlots(dense', next', e)) = 1

C16_ChangesAreQueuedOnce == [][C16_ChangeStep]_vars

\* the queued flag of an entity, false beyond the end of the flag array
QueuedFlag(e) == e < Len(sparse) /\ sparse[e + 1]

\* C17: in every reachable Manager state no entity stands more than once
\* among the entries of the change queue not yet polled, and an entity's
\* queued flag is true if and only if it is among those entries.
C17_QueueHoldsEachOnce ==
  fault = "none" =>
    /\ next <= Len(dense)
    /\ \A e \in SpawnIds :
         /\ Cardinality(PendingSlots(dense, next, e)) <= 1
         /\ QueuedFlag(e) <=> (e \in Pending)
    /\ \A e \in Pending : e \in SpawnIds

\* an entity that was polled has been enqueued again while the queue is
\* not yet drained
C17_Witness ==
  /\ next > 0 /\ Len(dense) > next
  /\ \E k \in 1 .. next : dense[k] \in Pending /\ QueuedFlag(dense[k])

\* C18: when World::run returns, no dead entity is in the member list of
\* any system.
C18_NoDeadMembersAfterRun ==
  last.op = "run" =>
    \A k \in DOMAIN systems : \A e \in Elems(systems[k].dense) :
      Alive(entities, e)

\* C19: when child is the direct parent of parent (bind(e0, e1) was done
\* and bind(e1, e0) is called), afterwards e0's parent is e1, e1 has no
\* parent, e1's children are those it had and e0, and e0's children are
\* those it had without e1: with no other links, e0 has no children and
\* e1's children are exactly {e0}. The earlier edge is gone and there is
\* no cycle.
C19_BindStep ==
  \A e0 \in EntityIds, e1 \in EntityIds :
    (/\ last'.op = "bind" /\ last'.a = e1 /\ last'.b = e0
     /\ Alive(entities, e0) /\ Alive(entities, e1)
     /\ ParentOf(entities, e1) = Some(e0)) =>
      /\ fault' = "none"
      /\ ParentOf(entities', e0) = Some(e1)
      /\ ParentOf(entities', e1) = None
      /\ ChildSet(entities', e0) = ChildSet(entities, e0) \ {e1}
      /\ ChildSet(entities', e1) = ChildSet(entities, e1) \cup {e0}
      /\ (ChildSet(entities, e0) = {e1} => ChildSet(entities', e0) = {})
      /\ (ChildSet(entities, e1) = {} => ChildSet(entities', e1) = {e0})
      /\ e1 \notin Ancestors(entities', e1, MaxEntities + 1)
      /\ e0 \notin Ancestors(entities', e0, MaxEntities + 1)

C19_BindReversesEdge == [][C19_BindStep]_vars

\* bind(e1, e0) was called with e0 the parent of e1, and now e0 is the only
\* child of the root e1 and has no children itself
C19_Witness ==
  /\ last.op = "bind" /\ last.ret = Some(1)
  /\ Alive(entities, last.a) /\ Alive(entities, last.b)
  /\ ParentOf(entities, last.b) = Some(last.a)
  /\ ChildSet(entities, last.b) = {}
  /\ ParentOf(entities, last.a) = None
  /\ ChildSet(entities, last.a) = {last.b}

\* the node on the ancestor chain of p, p included, whose parent is c
BelowOnChain(em, p, c) ==
  CHOOSE x \in ({p} \cup Ancestors(em, p, MaxEntities)) :
    Alive(em, x) /\ ParentOf(em, x) = Some(c)

\* C20 as stated: when child is a proper ancestor of parent, bind(parent,
\* child) detaches from its parent the node of parent's ancestor chain
\* whose parent is child, making that node parentless, and attaches child
\* under parent.
C20_StatedStep ==
  \A p \in EntityIds, c \in EntityIds :
    (/\ last'.op = "bind" /\ last'.a = p /\ last'.b = c
     /\ Alive(entities, p) /\ Alive(entities, c)
     /\ c \in Ancestors(entities, p, MaxEntities)) =>
      LET x == BelowOnChain(entities, p, c)
      IN /\ fault' = "none"
         /\ ParentOf(entities', x) = None
         /\ x \notin ChildSet(entities', c)
         /\ ParentOf(entities', c) = Some(p)
         /\ c \in ChildSet(entities', p)

C20_DetachesNodeBelowChild == [][C20_StatedStep]_vars

\* C20 as amended: when child is a proper ancestor of parent, bind(parent,
\* child) detaches parent itself from its own parent, making parent
\* parentless, and attaches child under parent; every entity other than
\* parent and child keeps its parent, so the node whose parent is child
\* stays under child unless it is parent itself.
C20_AmendedStep ==
  \A p \in EntityIds, c \in EntityIds :
    (/\ last'.op = "bind" /\ last'.a = p /\ last'.b = c
     /\ Alive(entities, p) /\ Alive(entities, c)
     /\ c \in Ancestors(entities, p, MaxEntities)) =>
      LET up == Unwrap(ParentOf(entities, p))
      IN /\ fault' = "none"
         /\ ParentOf(entities', p) = None
         /\ p \notin ChildSet(entities', up)
         /\ ParentOf(entities', c) = Some(p)
         /\ c \in ChildSet(entities', p)
         /\ \A y \in AliveSet(entities) \ {p, c} :
              ParentOf(entities', y) = ParentOf(entities, y)
         /\ \A y \in AliveSet(entities) :
              y \notin Ancestors(entities', y, MaxEntities + 1)

C20_DetachesParent == [][C20_AmendedStep]_vars

\* bind(parent, child) was called with child two or more steps above
\* parent: parent is now a root over child, and child still has the child
\* through which parent hung below it
C20_Witness ==
  /\ last.op = "bind" /\ Unwrap(last.ret) >= 2
  /\ ParentOf(entities, last.a) = None
  /\ ParentOf(entities, last.b) = Some(last.a)
  /\ ChildSet(entities, last.b) /= {}

\* C21: when child is a proper ancestor of parent at any depth,
\* bind(parent, child) removes the edge between parent and parent's former
\* parent and no other edge of the chain, leaving parent a root, then
\* attaches child under parent (at the end of parent's child list, child
\* leaving the list of the parent it had); child keeps its remaining
\* children and every other entity keeps its parent and its child list.
\* For the chain e0 -> e1 -> e2, bind(e2, e0) yields e2 as root with
\* children [e0], e0 with children [e1], and e1 with parent e0 and no
\* children.
C21_BindStep ==
  \A p \in EntityIds, c \in EntityIds :
    (/\ last'.op = "bind" /\ last'.a = p /\ last'.b = c
     /\ Alive(entities, p) /\ Alive(entities, c)
     /\ c \in Ancestors(entities, p, MaxEntities)) =>
      LET up == Unwrap(ParentOf(entities, p))
          above == ParentOf(entities, c)
          lost(y) == (IF y = up THEN {p} ELSE {})
                       \cup (IF above = Some(y) THEN {c} ELSE {})
          chain == /\ IsNone(above) /\ Children(entities, c) = << up >>
                   /\ ParentOf(entities, up) = Some(c)
                   /\ Children(entities, up) = << p >>
                   /\ Children(entities, p) = << >>
      IN /\ fault' = "none"
         /\ AliveSet(entities') = AliveSet(entities)
         /\ ParentOf(entities', p) = None
         /\ ParentOf(entities', c) = Some(p)
         /\ Children(entities', p) = Append(Children(entities, p), c)
         /\ \A y \in AliveSet(entities) \ {p, c} :
              ParentOf(entities', y) = ParentOf(entities, y)
         /\ \A y \in AliveSet(entities) \ {p} :
              ChildSet(entities', y) = ChildSet(entities, y) \ lost(y)
         /\ \A y \in AliveSet(entities) \ {p, up} :
              above /= Some(y) => Children(entities', y) = Children(entities, y)
         /\ chain => /\ Children(entities', p) = << c >>
                     /\ Children(entities', c) = << up >>
                     /\ ParentOf(entities', up) = Some(c)
                     /\ Children(entities', up) = << >>

C21_BindCutsParentEdgeOnly == [][C21_BindStep]_vars

\* bind(e2, e0) was called on the chain e0 -> e1 -> e2: e2 is a root with
\* children [e0], e0 has one child, and that child has parent e0 and no
\* children
C21_Witness ==
  /\ last.op = "bind" /\ last.ret = Some(2) /\ fault = "none"
  /\ ParentOf(entities, last.a) = None
  /\ Children(entities, last.a) = << last.b >>
  /\ ParentOf(entities, last.b) = Some(last.a)
  /\ Len(Children(entities, last.b)) = 1
  /\ LET e1 == Children(entities, last.b)[1]
     IN /\ ParentOf(entities, e1) = Some(last.b)
        /\ Children(entities, e1) = << >>

\* C22: for any two archetypes a and b built by any sequences of add,
\* remove and reset, a.is_subset_of(b) is true if and only if every id a
\* has b has too, and a.is_superset_of(b) is true if and only if every id
\* b has a has too, also when the two differ in length and when a once
\* held a higher id than b ever did and lost it since.
C22_SubsetIffIdsIncluded ==
  last.op = "compare" =>
    LET r == Unwrap(last.ret)
        A == ArchetypeIds(archetypes[1])
        B == ArchetypeIds(archetypes[2])
    IN /\ r.subset <=> A \subseteq B
       /\ r.superset <=> B \subseteq A

\* C23: two archetypes compare equal if and only if has(id) agrees for
\* every id, however many trailing all-zero segments either one holds, and
\* a == b gives what b == a gives.
C23_EqIffSameIds ==
  last.op = "compare" =>
    LET r == Unwrap(last.ret)
    IN /\ r.eq <=> (\A id \in 0 .. (BITS + BITS) :
                      Archetype_has(archetypes[1], id)
                        <=> Archetype_has(archetypes[2], id))
       /\ r.eq <=> r.eq_back

\* two archetypes that hold the same ids, at least one, in segment lists
\* of different lengths were compared and found equal
C23_Witness ==
  /\ last.op = "compare" /\ Unwrap(last.ret).eq
  /\ Len(archetypes[1].bytes) /= Len(archetypes[2].bytes)
  /\ ArchetypeIds(archetypes[1]) /= {}

\* C24: after any sequence of add, remove and reset on an Archetype,
\* has(id) is true if and only if the last operation affecting id was
\* add(id) with no reset since; remove of an id at or beyond the current
\* count changes nothing; after reset has(id) is false for every id, and a
\* later add makes has(id) true again.
C24_Step ==
  /\ \A k \in DOMAIN archetypes' :
       \A id \in 0 .. (BITS + BITS) :
         Archetype_has(archetypes'[k], id) <=> id \in named'[k]
  /\ (last'.op = "remove" /\ last'.b >= archetypes[last'.a].count)
       => archetypes' = archetypes
  /\ last'.op = "reset" =>
       \A id \in 0 .. (BITS + BITS) : ~Archetype_has(archetypes'[last'.a], id)
  /\ last'.op = "add" => Archetype_has(archetypes'[last'.a], last'.b)

C24_HasFollowsLastOperation == [][C24_Step]_vars

\* an id was added to an archetype whose count reaches beyond it, and it
\* is the only id held: the higher ids were removed or reset before
C24_Witness ==
  /\ last.op = "add"
  /\ archetypes[last.a].count > BITS
  /\ last.b < BITS
  /\ ArchetypeIds(archetypes[last.a]) = {last.b}

\* C25: each distinct component type gets exactly one pool index, assigned
\* as the next unused index (0, 1, 2, ...) on its first register or
\* insert; id::<T>() and register::<T>() give that same index ever after,
\* across any insert, remove, destroy and clear, and no two types share an
\* index.
C25_Step ==
  LET registered == { T \in Types : IsSome(components.ids[T]) }
      registered2 == { T \in Types : IsSome(components'.ids[T]) }
  IN /\ \A T \in registered :
          ComponentManager_id(components', T) = ComponentManager_id(components, T)
     /\ \A T \in registered2 \ registered :
          /\ ComponentManager_id(components', T) = Some(Cardinality(registered))
          /\ last'.op \in {"register", "insert"} /\ last'.b[1] = T
     /\ \A T \in registered2, U \in registered2 :
          T /= U => components'.ids[T] /= components'.ids[U]
     /\ { Unwrap(components'.ids[T]) : T \in registered2 }
          = 0 .. (Len(components'.pools) - 1)
     /\ last'.op = "register" =>
          /\ last'.ret = ComponentManager_id(components', last'.b[1])
          /\ last'.b[1] \in registered2
     /\ (last'.op = "insert" /\ fault' = "none") => last'.b[1] \in registered2

C25_TypeKeepsOnePoolIndex == [][C25_Step]_vars

\* register was called for the type that was second to be used and whose
\* pool holds components: it gave index 1 again
C25_Witness ==
  /\ last.op = "register" /\ last.ret = Some(1)
  /\ Len(components.pools) = 2
  /\ components.pools[2].owners /= << >>

\* C26: remove_component::<T>(E) when E is dead, T was never registered,
\* or E lacks a T changes nothing (pools, archetypes and change queue stay
\* as they were); otherwise afterwards has_component::<T>(E) is false, T's
\* pool has no entry for E, E is enqueued as changed, and E's other
\* components are untouched.
C26_RemoveStep ==
  \A E \in SpawnIds, T \in Types :
    (last'.op = "remove_component" /\ last'.a = E /\ last'.b = T) =>
      LET after == [entities |-> entities', components |-> components',
                    sparse |-> sparse', dense |-> dense', next |-> next']
      IN IF \/ ~Manager_is_entity_alive(Mgr, E)
            \/ IsNone(ComponentManager_id(components, T))
            \/ ~Manager_has_component(Mgr, T, E)
         THEN after = Mgr /\ fault' = "none"
         ELSE /\ fault' = "none"
              /\ ~Manager_has_component(after, T, E)
              /\ \A k \in DOMAIN Manager_component_owners(after, T) :
                   Manager_component_owners(after, T)[k] /= E
              /\ Manager_component(after, T, E).ret = None
              /\ E \in { dense'[k] : k \in (next' + 1) .. Len(dense') }
              /\ \A U \in Types \ {T} :
                   /\ Manager_has_component(after, U, E)
                        <=> Manager_has_component(Mgr, U, E)
                   /\ HeldValue(components', U, E) = HeldValue(components, U, E)

C26_RemoveComponentEffect == [][C26_RemoveStep]_vars

\* remove_component took a component from an entity that holds a
\* component of another type still, and the entity is in the change queue
C26_Witness ==
  /\ last.op = "remove_component" /\ last.ret = Some(TRUE)
  /\ ~Manager_has_component(Mgr, last.b, last.a)
  /\ \E U \in Types \ {last.b} : Manager_has_component(Mgr, U, last.a)
  /\ last.a \in Pending

\* C27: every successful change to an entity's hierarchy (its parent being
\* set or cleared, a child being inserted or removed, by bind, unbind or
\* destroy) marks that entity's record dirty, just as a change to its
\* archetype does: the entity is in the change queue after the call.
C27_HierarchyStep ==
  \A e \in SpawnIds :
    (/\ last'.op \in {"bind", "unbind", "destroy_entity"} /\ fault' = "none"
     /\ Alive(entities, e) /\ Alive(entities', e)
     /\ \/ ParentOf(entities', e) /= ParentOf(entities, e)
        \/ Children(entities', e) /= Children(entities, e)) =>
      e \in { dense'[k] : k \in (next' + 1) .. Len(dense') }

C27_HierarchyChangeMarksDirty == [][C27_HierarchyStep]_vars

\* the threads that own a Context which Context::new returned and whose
\* drop has not run to its end
ContextOwners(th) == { t \in ThreadIds : th[t].pc \in {"holds", "dropping"} }

\* C28: at most one Context exists at a time: while a Context returned by
\* Context::new has not been dropped, every other call to Context::new,
\* from any thread and under any interleaving of the calls, returns Err.
C28_Step ==
  /\ Cardinality(ContextOwners(threads')) <= 1
  /\ ContextOwners(threads') /= {} => is_context_initialized'
  /\ \A u \in ThreadIds :
       (/\ threads[u].pc \notin {"idle", "holds", "dropping"}
        /\ threads'[u].pc \in {"idle", "holds"}
        /\ ContextOwners(threads) \ {u} /= {}) =>
         threads'[u].ret = "err" /\ threads'[u].pc = "idle"

C28_OneContextAtATime == [][C28_Step]_vars

\* a thread owns a Context, and the call of another thread has just
\* returned Err from the swap
C28_Witness ==
  /\ last.op = "swap"
  /\ threads[last.a].pc = "idle" /\ threads[last.a].ret = "err"
  /\ \E t \in ThreadIds \ {last.a} : threads[t].pc = "holds"

\* C29: World::run invokes each system's callback exactly once per tick,
\* in registration order, and after each callback drains the change queue
\* until it is empty before the next callback starts; the change queue is
\* empty when run returns.  Step by step: a tick starts with the callback
\* of system 0; a callback is followed by its drain; every turn of the
\* drain loop completes, and the loop is left only on an empty queue, for
\* the callback of the next system or, after the last system, for the
\* return with an empty queue.
C29_Step ==
  /\ (pc = "idle" /\ pc' /= "idle") => (pc' = "callback" /\ cur' = 0)
  /\ pc = "callback" =>
       /\ cur' = cur
       /\ pc' \in {"callback", "drain"}
  /\ pc = "drain" =>
       /\ fault' = "none"
       /\ pc' = "drain" => (cur' = cur /\ next < Len(dense))
       /\ pc' = "callback" =>
            /\ Len(dense) <= next
            /\ cur' = cur + 1 /\ cur' < Len(systems)
            /\ dense' = << >> /\ next' = 0
       /\ pc' = "idle" =>
            /\ Len(dense) <= next
            /\ cur = Len(systems) - 1
            /\ dense' = << >> /\ next' = 0

C29_CallbacksOnceInOrder == [][C29_Step]_vars

\* C30: the drain loop that follows a system's callback terminates:
\* evaluating or removing entities in systems enqueues no new change, so
\* every turn of the loop completes with one entry fewer left to poll,
\* polling reports the queue empty, and World::run returns whenever every
\* callback returns.
C30_Step ==
  pc = "drain" =>
    /\ fault' = "none"
    /\ pc' = "drain" =>
         /\ dense' = dense
         /\ Len(dense') - next' < Len(dense) - next
    /\ pc' /= "drain" => Len(dense) <= next

C30_DrainTerminates == [][C30_Step]_vars

\* the entries of the change queue not yet polled, in their order
PendingSeq(d, n) == SubSeq(d, n + 1, Len(d))

\* C31: poll_changed returns queued entities in the order in which they
\* were first marked changed, and an entity marked again after it has been
\* polled (before the queue reports empty) is returned again before
\* poll_changed returns None, so no change notification is lost; once None
\* is returned the queue is empty and a later mark enqueues afresh.  Step
\* by step: a mark (the set_changed of a successful add_component or
\* remove_component and of every destroy_entity) appends the entity behind
\* the entries not yet polled unless it stands among them, a poll returns
\* the first of them and leaves the rest, and None comes only when none is
\* left and leaves an empty queue with every queued flag clear.
C31_Step ==
  LET before == PendingSeq(dense, next)
      after == PendingSeq(dense', next')
      marked == { e \in SpawnIds :
                    \/ last'.op = "add_component" /\ last'.a = e
                         /\ last'.ret = None
                    \/ last'.op = "remove_component" /\ last'.a = e
                         /\ last'.ret = Some(TRUE)
                    \/ last'.op = "destroy_entity" /\ last'.a = e }
  IN /\ fault' = "none"
     /\ (last'.op = "poll_changed" /\ IsSome(last'.ret)) =>
          /\ before /= << >>
          /\ Unwrap(last'.ret) = Head(before)
          /\ after = Tail(before)
     /\ (last'.op = "poll_changed" /\ IsNone(last'.ret)) =>
          /\ before = << >>
          /\ dense' = << >> /\ next' = 0
          /\ \A k \in DOMAIN sparse' : ~sparse'[k]
     /\ last'.op /= "poll_changed" =>
          /\ \A e \in marked :
               after = IF e \in Elems(before) THEN before
                       ELSE Append(before, e)
          /\ marked = {} => after = before

C31_PollFollowsMarkOrder == [][C31_Step]_vars

\* an entity was polled, marked again before the queue reported empty, and
\* has now been returned a second time
C31_Witness ==
  /\ last.op = "poll_changed" /\ IsSome(last.ret)
  /\ next >= 2
  /\ \E k \in 1 .. (next - 1) : dense[k] = Unwrap(last.ret)
  /\ dense[next] = Unwrap(last.ret)

\* how many times e stands in the sequence q
Occurrences(q, e) == Cardinality({ k \in DOMAIN q : q[k] = e })

\* C32: when child already has a parent q other than parent and child is
\* not an ancestor of parent (parent and child being distinct and alive, so
\* that the bind is not rejected), after bind(parent, child) child's parent is
\* parent, parent lists child exactly once, q no longer lists child, and
\* every other parent link and child link is as before: every entity but
\* child keeps its parent, q keeps its other children, parent keeps its
\* children in their order, and every other entity keeps its child list.
C32_BindStep ==
  \A p \in EntityIds, c \in EntityIds, q \in EntityIds :
    (/\ last'.op = "bind" /\ last'.a = p /\ last'.b = c
     /\ p /= c /\ Alive(entities, p) /\ Alive(entities, c)
     /\ ParentOf(entities, c) = Some(q) /\ q /= p
     /\ c \notin Ancestors(entities, p, MaxEntities)) =>
      /\ fault' = "none"
      /\ AliveSet(entities') = AliveSet(entities)
      /\ ParentOf(entities', c) = Some(p)
      /\ Occurrences(Children(entities', p), c) = 1
      /\ Children(entities', p) = Append(Children(entities, p), c)
      /\ c \notin ChildSet(entities', q)
      /\ ChildSet(entities', q) = ChildSet(entities, q) \ {c}
      /\ \A y \in AliveSet(entities) \ {c} :
           ParentOf(entities', y) = ParentOf(entities, y)
      /\ \A y \in AliveSet(entities) \ {p, q} :
           Children(entities', y) = Children(entities, y)

C32_BindMovesChild == [][C32_BindStep]_vars

\* bind(parent, child) was called with child no ancestor of parent, child
\* now hangs under parent, and a third entity that once listed child (its
\* slot for child is there and empty) is alive with no children left
C32_Witness ==
  /\ last.op = "bind" /\ last.ret = Some(0) /\ fault = "none"
  /\ Alive(entities, last.a) /\ Alive(entities, last.b)
  /\ ParentOf(entities, last.b) = Some(last.a)
  /\ Occurrences(Children(entities, last.a), last.b) = 1
  /\ \E q \in AliveSet(entities) \ {last.a, last.b} :
       LET d == SlotData(entities.sparse, q)
       IN /\ Len(d.sparse) = last.b + 1
          /\ ~EntityData_has_child(d, last.b)
          /\ d.dense = << >>

\* C33: bind(parent, child) with parent == child, or with either id dead
\* or never issued, returns without panic and changes no entity record:
\* every slot, with its parent pointer and child list, and the free list
\* are as they were before the call.
C33_BindStep ==
  \A p \in EntityIds, c \in EntityIds :
    (/\ last'.op = "bind" /\ last'.a = p /\ last'.b = c
     /\ (p = c \/ ~Alive(entities, p) \/ ~Alive(entities, c))) =>
      /\ fault' = "none"
      /\ entities' = entities

C33_BindRejected == [][C33_BindStep]_vars

\* bind(parent, child) was called with parent alive and holding a child
\* and with child a destroyed id, and parent does not list child
C33_Witness ==
  /\ last.op = "bind" /\ last.a /= last.b /\ fault = "none"
  /\ Alive(entities, last.a) /\ ChildSet(entities, last.a) /= {}
  /\ last.b \in FreeIds(entities)
  /\ last.b \notin ChildSet(entities, last.a)

\* C34: unbind(child) on an alive child that has a parent clears child's
\* parent and removes child from that parent's child set, leaving child's
\* own children and every other link unchanged (every other entity keeps
\* its parent, every entity but the former parent keeps its child list);
\* on a root, a dead id or a never issued id it changes nothing.
C34_UnbindStep ==
  \A c \in EntityIds :
    (last'.op = "unbind" /\ last'.a = c) =>
      /\ fault' = "none"
      /\ IF Alive(entities, c) /\ IsSome(ParentOf(entities, c))
         THEN LET q == Unwrap(ParentOf(entities, c))
              IN /\ AliveSet(entities') = AliveSet(entities)
                 /\ entities'.destroyed = entities.destroyed
                 /\ ParentOf(entities', c) = None
                 /\ c \in ChildSet(entities, q)
                 /\ ChildSet(entities', q) = ChildSet(entities, q) \ {c}
                 /\ Occurrences(Children(entities', q), c) = 0
                 /\ Children(entities', c) = Children(entities, c)
                 /\ \A y \in AliveSet(entities) \ {c} :
                      ParentOf(entities', y) = ParentOf(entities, y)
                 /\ \A y \in AliveSet(entities) \ {q} :
                      Children(entities', y) = Children(entities, y)
         ELSE entities' = entities

C34_UnbindDetachesOnly == [][C34_UnbindStep]_vars

\* unbind(child) was called, child is a root that still has a child of its
\* own, and another alive entity that once listed child lists it no more
C34_Witness ==
  /\ last.op = "unbind" /\ fault = "none"
  /\ Alive(entities, last.a) /\ ParentOf(entities, last.a) = None
  /\ ChildSet(entities, last.a) /= {}
  /\ \E q \in AliveSet(entities) \ {last.a} :
       LET d == SlotData(entities.sparse, q)
       IN /\ Len(d.sparse) = last.a + 1
          /\ ~EntityData_has_child(d, last.a)
          /\ q \notin ChildSet(entities, last.a)

\* C35: System::remove(e) removes e from the member list if it is there
\* and leaves the membership of every other entity unchanged, whatever the
\* ids and their positions in dense; if e is not a member the call changes
\* nothing.
C35_RemoveStep ==
  \A e \in OwnerIds :
    (last'.op = "remove" /\ last'.a = e) =>
      /\ fault' = "none"
      /\ Elems(system'.dense) = Elems(system.dense) \ {e}
      /\ e \notin Elems(system.dense) => system' = system

C35_RemoveKeepsOthers == [][C35_RemoveStep]_vars

\* C36: in every System state reachable by evaluate and remove, sparse[e]
\* is Some(i) if and only if dense[i] == e, and dense holds no entity
\* twice.
C36_SparseMirrorsDense ==
  /\ \A e \in 0 .. (Len(system.sparse) - 1) :
       IsSome(system.sparse[e + 1]) =>
         /\ Unwrap(system.sparse[e + 1]) < Len(system.dense)
         /\ system.dense[Unwrap(system.sparse[e + 1]) + 1] = e
  /\ \A i \in DOMAIN system.dense :
       /\ system.dense[i] < Len(system.sparse)
       /\ system.sparse[system.dense[i] + 1] = Some(i - 1)
  /\ \A i \in DOMAIN system.dense, j \in DOMAIN system.dense :
       system.dense[i] = system.dense[j] => i = j

\* C37: no sequence of System::evaluate and System::remove calls indexes
\* dense or sparse out of bounds; remove(e) after e was evicted by a
\* failing evaluate is a no-op.
C37_CallStep ==
  /\ last'.op \in {"evaluate", "remove"} => fault' = "none"
  /\ \A e \in OwnerIds :
       (last'.op = "remove" /\ last'.a = e /\ named[e] = "fail") =>
         system' = system

C37_NoIndexOutOfBounds == [][C37_CallStep]_vars

\* C38: in every reachable EntityManager state, for alive entities a and
\* b, b's parent is a if and only if a's child set contains b; every
\* recorded parent and every listed child is alive; and no child list
\* holds an entity twice.
C38_LinksAgree ==
  /\ \A a \in AliveSet(entities), b \in AliveSet(entities) :
       (ParentOf(entities, b) = Some(a)) <=> (b \in ChildSet(entities, a))
  /\ \A a \in AliveSet(entities) :
       /\ IsSome(ParentOf(entities, a)) =>
            Alive(entities, Unwrap(ParentOf(entities, a)))
       /\ \A c \in ChildSet(entities, a) :
            /\ Alive(entities, c)
            /\ Occurrences(Children(entities, a), c) = 1

\* destroy was called on a child whose parent is alive and still holds
\* another child, and the destroyed id is on the free list
C38_Witness ==
  /\ last.op = "destroy" /\ last.b >= 0 /\ Unwrap(last.ret) >= 1
  /\ fault = "none"
  /\ last.a \in FreeIds(entities)
  /\ Alive(entities, last.b)
  /\ ChildSet(entities, last.b) /= {}
  /\ last.a \notin ChildSet(entities, last.b)

\* the free list holds only dead ids, each at most once
FreeListSound(em) ==
  /\ FreeIds(em) \cap AliveSet(em) = {}
  /\ \A i \in DOMAIN em.destroyed, j \in DOMAIN em.destroyed :
       em.destroyed[i].owner = em.destroyed[j].owner => i = j

\* C39: spawn never returns the id of an entity that is alive when it is
\* called, and through any sequence of spawn, bind, unbind and destroy
\* (destroying the same id twice, or a child and then its former parent,
\* included) the free list holds only dead ids, each at most once.
C39_Step ==
  /\ FreeListSound(entities)
  /\ FreeListSound(entities')
  /\ last'.op = "spawn" =>
       /\ ~Alive(entities, Unwrap(last'.ret))
       /\ Alive(entities', Unwrap(last'.ret))
       /\ AliveSet(entities') = AliveSet(entities) \cup {Unwrap(last'.ret)}

C39_FreeListHoldsDeadIdsOnce == [][C39_Step]_vars

\* destroy was called on an id that was already dead and stands on the
\* free list, which holds another id as well, while an entity is alive
C39_Witness ==
  /\ last.op = "destroy" /\ last.ret = Some(0) /\ fault = "none"
  /\ last.a \in FreeIds(entities)
  /\ Len(entities.destroyed) >= 2
  /\ AliveSet(entities) /= {}

\* C40: after any sequence of Manager operations, for every entity id E
\* and component type T, component::<T>(E) is Some if and only if
\* has_component::<T>(E) is true; in particular an entity just returned by
\* spawn_entity, a recycled id included, has no component of any type.
C40_ComponentIffHasComponent ==
  /\ \A E \in SpawnIds \cup {MaxSpawn} : \A T \in Types :
       IsSome(Manager_component(Mgr, T, E).ret)
         <=> Manager_has_component(Mgr, T, E)
  /\ last.op = "spawn_entity" =>
       \A T \in Types :
         /\ Manager_component(Mgr, T, Unwrap(last.ret)).ret = None
         /\ ~Manager_has_component(Mgr, T, Unwrap(last.ret))

====
